---------------------------- MODULE Spec2Model ----------------------------
(***************************************************************************)
(* A model of MacMemory (src/macmemory.cpp): the MemoryScanner class, its  *)
(* value codec (the literal parsing and value rendering that firstScan and *)
(* nextScan do inline), the first scan over the region catalog and the     *)
(* refine scan over the previous result set.                               *)
(*                                                                         *)
(* Bytes are integers 0..255; a value is a little-endian sequence of       *)
(* bytes, as memcpy of a native integer or float lays it out on the        *)
(* machines macOS runs on.  A literal and a description are sequences of   *)
(* one-character strings.  No number of the program wider than 31 bits is  *)
(* held in one integer of the model: wide values are kept as bytes.        *)
(***************************************************************************)
EXTENDS Integers, Sequences, FiniteSets, TLC

(***************************************************************************)
(* Bounds of the model.                                                    *)
(***************************************************************************)
\* number of bytes of target address space the model enumerates
MemSize == 5
\* largest number of regions in a region catalog
MaxRegions == 2
\* stands for the literal 10000 of src/macmemory.cpp:480 (firstScan's
\* "totalHits >= 10000"), scaled down so that the ceiling is hit
ResultCeiling == 2
\* number of out-of-bounds window positions the model follows past the end
\* of a region buffer before the scanner process is taken to have faulted
OobSpan == 3
\* number of shell commands followed in one session
MaxOps == 3
\* number of writes the target process makes to its own memory
MaxWrites == 1

\* stores of the target between the refines of a chain
MaxStores == 2
\* polls of one watch that are followed
MaxPolls == 3
\* regions of a target that stores nothing
MaxStaticRegions == 3
\* matches of a result set that is saved
MaxSaved == 12
\* bytes watchAddress reads for a STRING
StringWatchSize == 32

(***************************************************************************)
(* enum ValueType, and the comparison strings the scans dispatch on.       *)
(***************************************************************************)
ValueType == {"BYTE", "INT16", "INT32", "INT64", "FLOAT", "DOUBLE", "STRING", "UNKNOWN"}

IntegerTypes == {"BYTE", "INT16", "INT32", "INT64"}

NumericTypes == IntegerTypes \cup {"FLOAT", "DOUBLE"}

Comparisons == {"exact", "greater", "less", "changed", "unchanged"}

(***************************************************************************)
(* Characters and bytes.                                                   *)
(***************************************************************************)
Digits == <<"0", "1", "2", "3", "4", "5", "6", "7", "8", "9">>

IsDigit(c) == \E i \in 1..10 : Digits[i] = c

DigitVal(c) == (CHOOSE i \in 1..10 : Digits[i] = c) - 1

\* the byte of a character of a literal (ASCII)
Ord(c) ==
    IF IsDigit(c) THEN 48 + DigitVal(c)
    ELSE IF c = "-" THEN 45
    ELSE IF c = "+" THEN 43
    ELSE 97                        \* "a", the one letter literals are made of

\* the character std::string / operator<< shows for a byte of a STRING value
Chr(b) ==
    IF b \in 48..57 THEN Digits[b - 47]
    ELSE IF b = 45 THEN "-"
    ELSE IF b = 43 THEN "+"
    ELSE IF b = 97 THEN "a"
    ELSE IF b = 0 THEN "\\0"
    ELSE "?"

Pow2(n) == IF n = 0 THEN 1 ELSE 2 ^ n

ZeroBytes(n) == [i \in 1..n |-> 0]

(***************************************************************************)
(* Unsigned arithmetic on little-endian byte sequences.                    *)
(***************************************************************************)
\* bytes * m + a, in Len(bytes) bytes; carry is what does not fit
RECURSIVE MulAddFrom(_, _, _, _)
MulAddFrom(bytes, m, a, i) ==
    IF i > Len(bytes) THEN [bytes |-> bytes, carry |-> a]
    ELSE LET t == bytes[i] * m + a
         IN  MulAddFrom([bytes EXCEPT ![i] = t % 256], m, t \div 256, i + 1)

MulAdd(bytes, m, a) == MulAddFrom(bytes, m, a, 1)

\* bytes \div d and bytes % d for a small d, by long division from the top byte
RECURSIVE DivModFrom(_, _, _, _)
DivModFrom(bytes, d, i, rem) ==
    IF i = 0 THEN [bytes |-> bytes, rem |-> rem]
    ELSE LET t == rem * 256 + bytes[i]
         IN  DivModFrom([bytes EXCEPT ![i] = t \div d], d, i - 1, t % d)

DivMod(bytes, d) == DivModFrom(bytes, d, Len(bytes), 0)

IsZero(bytes) == \A i \in 1..Len(bytes) : bytes[i] = 0

\* two's complement negation in Len(bytes) bytes
Negate(bytes) == MulAdd([i \in 1..Len(bytes) |-> 255 - bytes[i]], 1, 1).bytes

\* bit i (0 = least significant) of a byte sequence; 0 outside it
BitOf(bytes, i) ==
    IF i < 0 \/ i >= 8 * Len(bytes) THEN 0
    ELSE (bytes[(i \div 8) + 1] \div Pow2(i % 8)) % 2

\* index of the highest set bit; -1 for zero
TopBit(bytes) ==
    IF IsZero(bytes) THEN -1
    ELSE LET top == CHOOSE i \in 1..Len(bytes) :
                        bytes[i] # 0 /\ \A j \in (i + 1)..Len(bytes) : bytes[j] = 0
             bit == CHOOSE k \in 0..7 :
                        bytes[top] \div Pow2(k) = 1
         IN  8 * (top - 1) + bit

\* unsigned order, compared from the most significant byte down
RECURSIVE UnsignedLessFrom(_, _, _)
UnsignedLessFrom(a, b, i) ==
    IF i = 0 THEN FALSE
    ELSE IF a[i] # b[i] THEN a[i] < b[i]
    ELSE UnsignedLessFrom(a, b, i - 1)

UnsignedLess(a, b) == UnsignedLessFrom(a, b, Len(a))

IsNegative(bytes) == bytes[Len(bytes)] >= 128

\* order of two's complement values of equal width
SignedLess(a, b) ==
    IF IsNegative(a) # IsNegative(b) THEN IsNegative(a)
    ELSE UnsignedLess(a, b)


(***************************************************************************)
(* The literal parsing of firstScan and nextScan: std::stoi, std::stoll,   *)
(* std::stof and std::stod, then the static_cast and the memcpy.           *)
(***************************************************************************)
\* width of the accumulator a literal's digits are summed in
AccBytes == 16

\* strtol / strtod on a token: an optional sign, then the longest run of
\* digits; what follows the digits is ignored.  (The characters literals are
\* made of here are digits, signs and the letter a, so the number a float
\* parse accepts is the same run of digits.)
HasSign(lit) == Len(lit) > 0 /\ lit[1] \in {"-", "+"}

FirstDigit(lit) == IF HasSign(lit) THEN 2 ELSE 1

RECURSIVE AccumulateFrom(_, _, _, _)
AccumulateFrom(lit, i, acc, over) ==
    IF i > Len(lit) \/ ~IsDigit(lit[i]) THEN [mag |-> acc, over |-> over, next |-> i]
    ELSE LET r == MulAdd(acc, 10, DigitVal(lit[i]))
         IN  AccumulateFrom(lit, i + 1, r.bytes, over \/ r.carry > 0)

\* [conv, neg, mag, over]: whether any digit was converted, the sign, the
\* magnitude in AccBytes bytes and whether it did not fit them
ParseNumber(lit) ==
    LET r == AccumulateFrom(lit, FirstDigit(lit), ZeroBytes(AccBytes), FALSE)
    IN  [conv |-> r.next > FirstDigit(lit),
         neg  |-> HasSign(lit) /\ lit[1] = "-",
         mag  |-> r.mag,
         over |-> r.over]

\* mag < 2^bits, or mag = 2^bits exactly for a negative number
FitsSigned(p, bits) ==
    /\ ~p.over
    /\ \/ TopBit(p.mag) < bits
       \/ /\ p.neg
          /\ TopBit(p.mag) = bits
          /\ \A j \in 0..(bits - 1) : BitOf(p.mag, j) = 0

\* a variant of IntBytes that stores the high byte first
IntBytesHighFirst(p, w) ==
    LET full == IF p.neg THEN Negate(p.mag) ELSE p.mag
    IN  [i \in 1..w |-> full[w + 1 - i]]

\* the two's complement bytes of the parsed number, low w bytes: what
\* static_cast to a w-byte integer and memcpy leave in targetValue
IntBytes(p, w) ==
    LET full == IF p.neg THEN Negate(p.mag) ELSE p.mag
    IN  [i \in 1..w |-> full[i]]

\* std::stoi then static_cast<uint8_t / int16_t / int32_t>: the range check
\* is stoi's, against int, whatever the width cast to
StoiEncode(lit, w) ==
    LET p == ParseNumber(lit)
    IN  IF ~p.conv THEN [status |-> "invalid_argument", bytes |-> <<>>]
        ELSE IF ~FitsSigned(p, 31) THEN [status |-> "out_of_range", bytes |-> <<>>]
        ELSE [status |-> "ok", bytes |-> IntBytes(p, w)]

\* std::stoll then static_cast<int64_t>
StollEncode(lit) ==
    LET p == ParseNumber(lit)
    IN  IF ~p.conv THEN [status |-> "invalid_argument", bytes |-> <<>>]
        ELSE IF ~FitsSigned(p, 63) THEN [status |-> "out_of_range", bytes |-> <<>>]
        ELSE [status |-> "ok", bytes |-> IntBytes(p, 8)]

\* the byte whose bits, least significant first, are bits[from .. from + 7]
ByteOfBits(bits, from) ==
    bits[from] + 2 * bits[from + 1] + 4 * bits[from + 2] + 8 * bits[from + 3]
    + 16 * bits[from + 4] + 32 * bits[from + 5] + 64 * bits[from + 6]
    + 128 * bits[from + 7]

\* the w bytes, little-endian, of a function from 0 .. 8w-1 to bits
BytesOfBits(bits, w) == [i \in 1..w |-> ByteOfBits(bits, 8 * (i - 1))]

\* IEEE 754 binary32 / binary64 of an integer magnitude, round to nearest
\* even: mbits mantissa bits, ebits exponent bits, w = (1 + ebits + mbits) / 8
FloatFields(mag, mbits) ==
    LET e     == TopBit(mag)
        shift == e - mbits
        nb    == (mbits + 8) \div 8
        trunc == BytesOfBits([k \in 0..(8 * nb - 1) |->
                                 IF k < mbits THEN BitOf(mag, k + shift) ELSE 0], nb)
        guard  == BitOf(mag, shift - 1) = 1
        sticky == \E j \in 0..(shift - 2) : BitOf(mag, j) = 1
        up     == guard /\ (sticky \/ BitOf(mag, shift) = 1)
        inc    == IF up THEN MulAdd(trunc, 1, 1).bytes ELSE trunc
    IN  IF BitOf(inc, mbits) = 1
        THEN [exp |-> e + 1, mant |-> ZeroBytes(nb)]
        ELSE [exp |-> e, mant |-> inc]

\* sign, biased exponent E and mantissa laid out in w bytes
FloatLayout(neg, E, mant, mbits, ebits) ==
    BytesOfBits([k \in 0..(mbits + ebits) |->
                    IF k < mbits THEN BitOf(mant, k)
                    ELSE IF k < mbits + ebits THEN (E \div Pow2(k - mbits)) % 2
                    ELSE IF neg THEN 1 ELSE 0],
                (1 + ebits + mbits) \div 8)

FloatBytes(p, mbits, ebits) ==
    LET bias == Pow2(ebits - 1) - 1
        f    == IF IsZero(p.mag) THEN [exp |-> -bias, mant |-> <<0>>]
                ELSE FloatFields(p.mag, mbits)
    IN  IF p.over \/ f.exp + bias >= Pow2(ebits) - 1
        THEN [status |-> "out_of_range", bytes |-> <<>>]
        ELSE [status |-> "ok",
              bytes |-> FloatLayout(p.neg, f.exp + bias, f.mant, mbits, ebits)]

\* std::stof
StofEncode(lit) ==
    LET p == ParseNumber(lit)
    IN  IF ~p.conv THEN [status |-> "invalid_argument", bytes |-> <<>>]
        ELSE FloatBytes(p, 23, 8)

\* std::stod
StodEncode(lit) ==
    LET p == ParseNumber(lit)
    IN  IF ~p.conv THEN [status |-> "invalid_argument", bytes |-> <<>>]
        ELSE FloatBytes(p, 52, 11)

\* the switch (type) that fills valueSize and targetValue.  status "ok":
\* the switch breaks with the bytes; "invalid_argument" / "out_of_range":
\* the std:: parse throws; "unsupported": the default branch returns
EncodeValue(type, lit) ==
    CASE type = "BYTE"   -> StoiEncode(lit, 1)
      [] type = "INT16"  -> StoiEncode(lit, 2)
      [] type = "INT32"  -> StoiEncode(lit, 4)
      [] type = "INT64"  -> StollEncode(lit)
      [] type = "FLOAT"  -> StofEncode(lit)
      [] type = "DOUBLE" -> StodEncode(lit)
      [] type = "STRING" -> [status |-> "ok", bytes |-> [i \in 1..Len(lit) |-> Ord(lit[i])]]
      [] OTHER           -> [status |-> "unsupported", bytes |-> <<>>]

\* the byte values target memory is filled with: zero and the letter a
ByteAlphabet == {0, 97}

\* the literals typed at the prompt: 97; 353, which is 97 modulo 256; a,
\* which no number parse accepts; and 2^31, one more than INT_MAX
Literals ==
    { <<"9", "7">>, <<"3", "5", "3">>, <<"a">>,
      <<"2", "1", "4", "7", "4", "8", "3", "6", "4", "8">> }

\* the literals the codec is given: the ends of the range of every integer
\* type and their neighbours, the numbers 50, 100 and 150, and a word
CodecLiterals ==
    { <<"0">>, <<"5", "0">>, <<"9", "7">>, <<"1", "0", "0">>,
      <<"1", "5", "0">>, <<"1", "2", "7">>, <<"1", "2", "8">>,
      <<"2", "0", "0">>, <<"2", "5", "5">>, <<"2", "5", "6">>,
      <<"3", "5", "3">>, <<"-", "1">>, <<"-", "9", "7">>,
      <<"-", "1", "2", "8">>, <<"-", "1", "2", "9">>,
      <<"3", "2", "7", "6", "7">>, <<"3", "2", "7", "6", "8">>,
      <<"-", "3", "2", "7", "6", "8">>,
      <<"2", "1", "4", "7", "4", "8", "3", "6", "4", "7">>,
      <<"2", "1", "4", "7", "4", "8", "3", "6", "4", "8">>,
      <<"-", "2", "1", "4", "7", "4", "8", "3", "6", "4", "8">>,
      <<"9", "2", "2", "3", "3", "7", "2", "0", "3", "6", "8", "5", "4", "7", "7", "5", "8", "0", "7">>,
      <<"-", "9", "2", "2", "3", "3", "7", "2", "0", "3", "6", "8", "5", "4", "7", "7", "5", "8", "0", "8">>,
      <<"a">> }

\* EncodeValue on the literals of the model, worked out once
EncodeTable ==
    [type \in ValueType, lit \in Literals \cup CodecLiterals |-> EncodeValue(type, lit)]

(***************************************************************************)
(* The description string of a match: the switch (type) that streams the   *)
(* value into a std::stringstream.                                         *)
(***************************************************************************)
\* decimal digits of an unsigned byte sequence, most significant first
RECURSIVE DecimalOf(_)
DecimalOf(bytes) ==
    LET r == DivMod(bytes, 10)
    IN  IF IsZero(r.bytes) THEN <<Digits[r.rem + 1]>>
        ELSE DecimalOf(r.bytes) \o <<Digits[r.rem + 1]>>

\* operator<< of a signed integer read from the first w bytes of value
SignedText(value, w) ==
    LET v == [i \in 1..w |-> value[i]]
    IN  IF IsNegative(v) THEN <<"-">> \o DecimalOf(Negate(v)) ELSE DecimalOf(v)

HexDigits == <<"0", "1", "2", "3", "4", "5", "6", "7", "8", "9", "a", "b", "c", "d", "e", "f">>

\* operator<< of a float or double read from the first w bytes of value.
\* Zero prints as 0 or -0.  The text of any other float (the %g form, six
\* significant digits) is not worked out digit by digit: the description
\* <<"%g", sign, exponent and mantissa in hex>> stands for it.
FloatText(value, w) ==
    LET v    == [i \in 1..w |-> value[i]]
        mag  == [v EXCEPT ![w] = v[w] % 128]
        hex  == [k \in 1..(2 * w) |->
                    LET b == v[w - ((k - 1) \div 2)]
                    IN  HexDigits[(IF k % 2 = 1 THEN b \div 16 ELSE b % 16) + 1]]
    IN  IF IsZero(mag) THEN (IF v[w] >= 128 THEN <<"-", "0">> ELSE <<"0">>)
        ELSE <<"%g">> \o hex

\* std::string str(data, size): every byte of the buffer, then quoted
QuotedText(value) == <<"\"">> \o [i \in 1..Len(value) |-> Chr(value[i])] \o <<"\"">>

\* a variant of Describe that streams a BYTE as a signed char's number
DescribeByteSigned(type, value) ==
    CASE type = "BYTE"   -> SignedText(value, 1)
      [] type = "INT16"  -> SignedText(value, 2)
      [] type = "INT32"  -> SignedText(value, 4)
      [] type = "INT64"  -> SignedText(value, 8)
      [] type = "FLOAT"  -> FloatText(value, 4)
      [] type = "DOUBLE" -> FloatText(value, 8)
      [] type = "STRING" -> QuotedText(value)
      [] OTHER           -> <<"Unknown">>

\* the switch (type) that builds result.description
Describe(type, value) ==
    CASE type = "BYTE"   -> DecimalOf(<<value[1]>>)
      [] type = "INT16"  -> SignedText(value, 2)
      [] type = "INT32"  -> SignedText(value, 4)
      [] type = "INT64"  -> SignedText(value, 8)
      [] type = "FLOAT"  -> FloatText(value, 4)
      [] type = "DOUBLE" -> FloatText(value, 8)
      [] type = "STRING" -> QuotedText(value)
      [] OTHER           -> <<"Unknown">>

(***************************************************************************)
(* The comparisons of firstScan and nextScan.                              *)
(***************************************************************************)
\* a variant of SameBytes that leaves the last of the n bytes out
SameBytesButLast(a, b, n) == \A i \in 1..(n - 1) : a[i] = b[i]

\* memcmp(a, b, n) == 0 for buffers that hold at least n bytes
SameBytes(a, b, n) == \A i \in 1..n : a[i] = b[i]

\* a float or double is a NaN: exponent all ones, mantissa not zero
IsNaN(v) ==
    LET w == Len(v)
    IN  IF w = 4
        THEN v[4] % 128 = 127 /\ v[3] >= 128 /\ (v[3] % 128 # 0 \/ v[2] # 0 \/ v[1] # 0)
        ELSE v[8] % 128 = 127 /\ v[7] \div 16 = 15
             /\ (v[7] % 16 # 0 \/ \E i \in 1..6 : v[i] # 0)

\* a < b for IEEE floats given as bytes: false when either is a NaN, zeros
\* of either sign are equal, otherwise by sign and then by magnitude bits
FloatLess(a, b) ==
    LET w    == Len(a)
        ma   == [a EXCEPT ![w] = a[w] % 128]
        mb   == [b EXCEPT ![w] = b[w] % 128]
        nega == a[w] >= 128
        negb == b[w] >= 128
    IN  IF IsNaN(a) \/ IsNaN(b) THEN FALSE
        ELSE IF IsZero(ma) /\ IsZero(mb) THEN FALSE
        ELSE IF nega # negb THEN nega
        ELSE IF nega THEN UnsignedLess(mb, ma)
        ELSE UnsignedLess(ma, mb)

\* a variant of TypedLess that reads every integer type as unsigned
TypedLessUnsigned(type, val, target) ==
    CASE type = "BYTE"   -> val[1] < target[1]
      [] type \in {"INT16", "INT32", "INT64"} -> UnsignedLess(val, target)
      [] type \in {"FLOAT", "DOUBLE"} -> FloatLess(val, target)
      [] OTHER           -> FALSE

\* val < target as the switch (type) of "less" reads the two buffers
TypedLess(type, val, target) ==
    CASE type = "BYTE"   -> val[1] < target[1]
      [] type \in {"INT16", "INT32", "INT64"} -> SignedLess(val, target)
      [] type \in {"FLOAT", "DOUBLE"} -> FloatLess(val, target)
      [] OTHER           -> FALSE

\* the value of `found` for a window of valueSize bytes in firstScan
FirstScanFound(type, comparison, window, target) ==
    CASE comparison = "exact"   -> SameBytes(window, target, Len(target))
      [] comparison = "greater" -> TypedLess(type, target, window)
      [] comparison = "less"    -> TypedLess(type, window, target)
      [] OTHER                  -> FALSE

(***************************************************************************)
(* The target process, as the scanner sees it through task_for_pid,        *)
(* mach_vm_region and mach_vm_read_overwrite.                              *)
(***************************************************************************)
Addr == 0..(MemSize - 1)

RECURSIVE SumTo(_, _)
SumTo(sizes, n) == IF n = 0 THEN 0 ELSE sizes[n] + SumTo(sizes, n - 1)

\* struct MemoryRegion, without name, protection, writable and executable,
\* which no scan reads
RegionOf(sizes, flags, i) ==
    [start |-> SumTo(sizes, i - 1), size |-> sizes[i], readable |-> flags[i]]

\* what refreshMemoryRegions can find: the regions of the target in
\* ascending address order, one after the other, here covering Addr
Catalogs ==
    UNION { { [i \in 1..n |-> RegionOf(sizes, flags, i)] :
                sizes \in { z \in [1..n -> 1..MemSize] : SumTo(z, n) = MemSize },
                flags \in [1..n -> BOOLEAN] } :
            n \in 1..MaxRegions }

VARIABLES
    isAttached,            \* MemoryScanner::isAttached
    memoryRegions,         \* MemoryScanner::memoryRegions
    scanResults,           \* MemoryScanner::scanResults
    previousScanResults,   \* MemoryScanner::previousScanResults
    targetMemory,          \* the bytes of the target process, by address
    reads,                 \* the readMemoryBlock calls of the last command
    last,                  \* the last command, as parsed, and how it ended
    ops,                   \* number of commands the shell has run
    writes,                \* number of writes the target has made
    targetRegions,         \* the regions the attached target has mapped now
    savedFile,             \* the lines of the file saveResults wrote last
    lastValue,             \* watchAddress: lastValue
    printed,               \* watchAddress: what it has written to std::cout
    sleeps,                \* watchAddress: number of usleep calls
    cancelRequested        \* Ctrl+C was pressed: a SIGINT is on its way

\* what no scan touches: the file, and the locals and output of the watch
outside == <<savedFile, lastValue, printed, sleeps, cancelRequested>>

vars == <<isAttached, memoryRegions, scanResults, previousScanResults,
          targetMemory, reads, last, ops, writes, targetRegions, outside>>

\* the scanner process is running (it has not faulted, and no signal has
\* ended it)
Alive == last.outcome \notin {"fault", "killed"}

\* the shell reads one more command
Prompt == Alive /\ ops < MaxOps

NoCommand == [op |-> "none", type |-> "UNKNOWN", value |-> <<>>,
              comparison |-> "", outcome |-> "none"]

Command(op, type, value, comparison, outcome) ==
    [op |-> op, type |-> type, value |-> value,
     comparison |-> comparison, outcome |-> outcome]

\* MemoryScanner(): not attached, every vector empty; the target's memory
\* starts filled with the letter a
Init ==
    /\ isAttached = FALSE
    /\ memoryRegions = <<>>
    /\ scanResults = <<>>
    /\ previousScanResults = <<>>
    /\ targetMemory = [a \in Addr |-> 97]
    /\ reads = <<>>
    /\ last = NoCommand
    /\ ops = 0
    /\ writes = 0
    /\ targetRegions = <<>>
    /\ savedFile = <<>>
    /\ lastValue = <<>>
    /\ printed = <<>>
    /\ sleeps = 0
    /\ cancelRequested = FALSE

\* the target process stores a byte in its own memory
TargetWrite ==
    /\ Alive
    /\ writes < MaxWrites
    /\ \E a \in Addr, b \in ByteAlphabet :
          /\ targetMemory[a] # b
          /\ targetMemory' = [targetMemory EXCEPT ![a] = b]
    /\ writes' = writes + 1
    /\ UNCHANGED <<isAttached, memoryRegions, scanResults, previousScanResults,
                   reads, last, ops, targetRegions, outside>>

\* mach_vm_read_overwrite can succeed on [address, address + size): every
\* byte lies in a region that the target has mapped now and that is
\* readable
Mapped(address, size) ==
    \A a \in address..(address + size - 1) :
        \E i \in 1..Len(targetRegions) :
            /\ targetRegions[i].readable
            /\ a >= targetRegions[i].start
            /\ a < targetRegions[i].start + targetRegions[i].size

\* the bytes readMemoryBlock copies out on success
BytesAt(address, size) == [i \in 1..size |-> targetMemory[address + i - 1]]

ReadCall(address, size, ok) == [address |-> address, size |-> size, ok |-> ok]

(***************************************************************************)
(* attachProcess and detachProcess.                                        *)
(***************************************************************************)
\* attachProcess when task_for_pid succeeds; refreshMemoryRegions is its
\* last call.  (When task_for_pid fails it returns with nothing changed.)
attachProcess ==
    /\ Prompt
    /\ ops' = ops + 1
    /\ \E catalog \in Catalogs :
          memoryRegions' = catalog
    /\ isAttached' = TRUE
    /\ scanResults' = <<>>
    /\ previousScanResults' = <<>>
    /\ reads' = <<>>
    /\ last' = Command("attach", "UNKNOWN", <<>>, "", "complete")
    /\ targetRegions' = memoryRegions'
    /\ UNCHANGED <<targetMemory, writes, outside>>

\* a variant of detachProcess that clears the catalog and leaves the two
\* result sets as they are
detachProcessKeepResults ==
    /\ Prompt
    /\ ops' = ops + 1
    /\ IF isAttached
       THEN /\ isAttached' = FALSE
            /\ memoryRegions' = <<>>
            /\ UNCHANGED <<scanResults, previousScanResults>>
       ELSE UNCHANGED <<isAttached, memoryRegions, scanResults, previousScanResults>>
    /\ reads' = <<>>
    /\ last' = Command("detach", "UNKNOWN", <<>>, "", "complete")
    /\ targetRegions' = memoryRegions'
    /\ UNCHANGED <<targetMemory, writes, outside>>

\* detachProcess: the vectors are cleared when a process is attached, and
\* nothing is done when none is
detachProcess ==
    /\ Prompt
    /\ ops' = ops + 1
    /\ IF isAttached
       THEN /\ isAttached' = FALSE
            /\ memoryRegions' = <<>>
            /\ scanResults' = <<>>
            /\ previousScanResults' = <<>>
       ELSE UNCHANGED <<isAttached, memoryRegions, scanResults, previousScanResults>>
    /\ reads' = <<>>
    /\ last' = Command("detach", "UNKNOWN", <<>>, "", "complete")
    /\ targetRegions' = memoryRegions'
    /\ UNCHANGED <<targetMemory, writes, outside>>

(***************************************************************************)
(* MemoryScanner::firstScan.                                               *)
(***************************************************************************)
\* struct ScanResult, as firstScan builds it for a window that matched
MakeResult(address, type, value) ==
    [address |-> address, type |-> type, value |-> value,
     description |-> Describe(type, value)]

\* the offsets first..lastOff in ascending order
Offsets(first, lastOff) == [k \in 1..(lastOff - first + 1) |-> first + k - 1]

\* a variant of Take with no ceiling: every hit is kept
TakeAll(seq, n) == seq

\* the hits kept before "if (totalHits >= 10000) break": the first n of
\* them (all of them when there are fewer)
Take(seq, n) == IF Len(seq) <= n THEN seq ELSE SubSeq(seq, 1, n)

\* a variant of HitOffsets for an inner loop that runs from the last offset
\* down to 0
HitOffsetsDescending(buf, lastOff, type, comparison, target) ==
    LET up == SelectSeq(Offsets(0, lastOff),
                        LAMBDA off : FirstScanFound(type, comparison,
                                         [i \in 1..Len(target) |-> buf[off + i]], target))
    IN  [k \in 1..Len(up) |-> up[Len(up) + 1 - k]]

\* the offsets of buf, among 0..lastOff in ascending order, whose window of
\* Len(target) bytes sets `found`
HitOffsets(buf, lastOff, type, comparison, target) ==
    SelectSeq(Offsets(0, lastOff),
              LAMBDA off : FirstScanFound(type, comparison,
                               [i \in 1..Len(target) |-> buf[off + i]], target))

\* a variant of LastOffset for the loop test "offset < buffer.size() -
\* valueSize", which leaves the last window out
LastOffsetStrict(size, valueSize) == size - valueSize - 1

\* the last offset of the inner loop when the buffer holds at least
\* valueSize bytes: "offset <= buffer.size() - valueSize"
LastOffset(size, valueSize) == size - valueSize

\* the inner loop "for (offset = 0; offset <= buffer.size() - valueSize;
\* offset++)" on one region whose read succeeded, with room for `room` more
\* results.  The bound is computed in size_t.  When the buffer holds at
\* least valueSize bytes the loop visits offsets 0..size-valueSize and stops
\* early at the hit that reaches the ceiling.  When the buffer is shorter
\* the subtraction wraps around and the loop reads past the end of the
\* buffer: the bytes it finds there are `fill`, and it goes on until the
\* ceiling is reached or, after OobSpan windows, the read faults.
ScanRegion(region, room, type, comparison, target, fill) ==
    LET w      == Len(target)
        buffer == BytesAt(region.start, region.size)
        short  == region.size < w
        beyond == [i \in 1..(w + OobSpan) |-> fill]
        buf    == IF short THEN buffer \o beyond ELSE buffer
        hits   == HitOffsets(buf, IF short THEN OobSpan - 1
                                  ELSE LastOffset(region.size, w),
                             type, comparison, target)
        kept   == Take(hits, room)
    IN  [results |-> [k \in 1..Len(kept) |->
                        MakeResult(region.start + kept[k], type,
                                   [i \in 1..w |-> buf[kept[k] + i]])],
         outcome |-> IF Len(hits) >= room THEN "ceiling"
                     ELSE IF short THEN "fault"
                     ELSE "complete"]

\* the loop over memoryRegions from region i on; fails are the regions
\* whose readMemoryBlock returns false
RECURSIVE FirstScanLoop(_, _, _, _, _, _, _, _)

\* a variant of FirstScanLoop in which a failed readMemoryBlock ends the
\* scan ("break" for "continue")
FirstScanLoopAbort(i, results, rds, type, comparison, target, fails, fill) ==
    IF i > Len(memoryRegions)
    THEN [results |-> results, reads |-> rds, outcome |-> "complete"]
    ELSE LET region == memoryRegions[i]
         IN  IF ~region.readable
             THEN FirstScanLoop(i + 1, results, rds, type, comparison, target, fails, fill)
             ELSE IF i \in fails
             THEN [results |-> results,
                   reads |-> Append(rds, ReadCall(region.start, region.size, FALSE)),
                   outcome |-> "complete"]
             ELSE LET r    == ScanRegion(region, ResultCeiling - Len(results),
                                         type, comparison, target, fill)
                      rds2 == Append(rds, ReadCall(region.start, region.size, TRUE))
                  IN  IF r.outcome = "complete"
                      THEN FirstScanLoop(i + 1, results \o r.results, rds2,
                                         type, comparison, target, fails, fill)
                      ELSE [results |-> results \o r.results, reads |-> rds2,
                            outcome |-> r.outcome]

FirstScanLoop(i, results, rds, type, comparison, target, fails, fill) ==
    IF i > Len(memoryRegions)
    THEN [results |-> results, reads |-> rds, outcome |-> "complete"]
    ELSE LET region == memoryRegions[i]
         IN  IF ~region.readable
             THEN FirstScanLoop(i + 1, results, rds, type, comparison, target, fails, fill)
             ELSE IF i \in fails
             THEN FirstScanLoop(i + 1, results,
                                Append(rds, ReadCall(region.start, region.size, FALSE)),
                                type, comparison, target, fails, fill)
             ELSE LET r    == ScanRegion(region, ResultCeiling - Len(results),
                                         type, comparison, target, fill)
                      rds2 == Append(rds, ReadCall(region.start, region.size, TRUE))
                  IN  IF r.outcome = "complete"
                      THEN FirstScanLoop(i + 1, results \o r.results, rds2,
                                         type, comparison, target, fails, fill)
                      ELSE [results |-> results \o r.results, reads |-> rds2,
                            outcome |-> r.outcome]

\* the bytes the scan may find past the end of a buffer: a choice only
\* when some readable region is shorter than valueSize
FillBytes(w) ==
    IF \E i \in 1..Len(memoryRegions) :
          memoryRegions[i].readable /\ memoryRegions[i].size < w
    THEN ByteAlphabet ELSE {0}

ReadableRegions == {i \in 1..Len(memoryRegions) : memoryRegions[i].readable}

\* the regions of the catalog that the target no longer maps as the catalog
\* has them: readMemoryBlock returns false for these
StaleRegions ==
    {i \in ReadableRegions : ~Mapped(memoryRegions[i].start, memoryRegions[i].size)}

\* a variant of firstScan that reads every region before it parses the
\* literal
firstScanReadFirst(type, value, comparison) ==
    LET enc == EncodeTable[type, value]
    IN  /\ previousScanResults' = <<>>
        /\ scanResults' = <<>>
        /\ reads' = [i \in 1..Len(memoryRegions) |->
                        ReadCall(memoryRegions[i].start, memoryRegions[i].size, TRUE)]
        /\ last' = Command("firstScan", type, value, comparison,
                           IF enc.status = "ok" THEN "complete" ELSE enc.status)
        /\ UNCHANGED <<isAttached, memoryRegions, targetMemory, writes,
                       targetRegions, outside>>

\* a variant of firstScan that clears the two vectors after the switch
\* that encodes the literal, so that a throw or the return of the default
\* branch leaves them as they were
firstScanClearLate(type, value, comparison) ==
    LET enc == EncodeTable[type, value]
    IN  /\ IF enc.status # "ok"
           THEN /\ reads' = <<>>
                /\ last' = Command("firstScan", type, value, comparison, enc.status)
                /\ UNCHANGED <<scanResults, previousScanResults>>
           ELSE \E fails \in SUBSET ReadableRegions, fill \in FillBytes(Len(enc.bytes)) :
                  /\ StaleRegions \subseteq fails
                  /\ LET r == FirstScanLoop(1, <<>>, <<>>, type, comparison,
                                            enc.bytes, fails, fill)
                     IN  /\ scanResults' = r.results
                         /\ previousScanResults' = <<>>
                         /\ reads' = r.reads
                         /\ last' = Command("firstScan", type, value, comparison,
                                            r.outcome)
        /\ UNCHANGED <<isAttached, memoryRegions, targetMemory, writes,
                       targetRegions, outside>>

\* firstScan(type, value, comparison).  The two vectors are cleared first;
\* a literal the parse rejects throws out of the function from there.
firstScan(type, value, comparison) ==
    LET enc == EncodeTable[type, value]
    IN  /\ previousScanResults' = <<>>
        /\ IF enc.status # "ok"
           THEN /\ scanResults' = <<>>
                /\ reads' = <<>>
                /\ last' = Command("firstScan", type, value, comparison, enc.status)
           ELSE \E fails \in SUBSET ReadableRegions, fill \in FillBytes(Len(enc.bytes)) :
                  /\ StaleRegions \subseteq fails
                  /\ LET r == FirstScanLoop(1, <<>>, <<>>, type, comparison,
                                            enc.bytes, fails, fill)
                     IN  /\ scanResults' = r.results
                         /\ reads' = r.reads
                         /\ last' = Command("firstScan", type, value, comparison,
                                            r.outcome)
        /\ UNCHANGED <<isAttached, memoryRegions, targetMemory, writes,
                       targetRegions, outside>>

(***************************************************************************)
(* MemoryScanner::nextScan.                                                *)
(***************************************************************************)
\* memcmp(currentValue.data(), prevResult.value.data(), valueSize) == 0.
\* When the stored value holds fewer than valueSize bytes memcmp reads past
\* its end; tailEqual says whether the bytes found there equal the rest of
\* currentValue.
SameAsStored(current, stored, tailEqual) ==
    IF Len(stored) >= Len(current) THEN SameBytes(current, stored, Len(current))
    ELSE SameBytes(current, stored, Len(stored)) /\ tailEqual

\* a variant of NextScanFound in which changed and unchanged compare the
\* fresh bytes with the search value instead of the stored value
NextScanFoundLiteral(type, comparison, current, target, stored, tailEqual) ==
    CASE comparison = "changed"   -> ~SameBytes(current, target, Len(current))
      [] comparison = "unchanged" -> SameBytes(current, target, Len(current))
      [] OTHER -> FirstScanFound(type, comparison, current, target)

\* the value of `found` for one previous result in nextScan
NextScanFound(type, comparison, current, target, stored, tailEqual) ==
    CASE comparison = "changed"   -> ~SameAsStored(current, stored, tailEqual)
      [] comparison = "unchanged" -> SameAsStored(current, stored, tailEqual)
      [] OTHER -> FirstScanFound(type, comparison, current, target)

\* a variant of PushBack that puts the new result first
PushFront(results, result) == <<result>> \o results

\* scanResults.push_back(result)
PushBack(results, result) == Append(results, result)

\* the loop over previousScanResults (prev) from entry i on; fails are the
\* entries whose readMemoryBlock returns false, tails the entries whose
\* memcmp finds equal bytes past the end of a shorter stored value
RECURSIVE NextScanLoop(_, _, _, _, _, _, _, _, _)

\* a variant of NextScanLoop in which a kept match keeps the value and the
\* description it had
NextScanLoopKeepOld(i, prev, results, rds, type, comparison, target, fails, tails) ==
    IF i > Len(prev) THEN [results |-> results, reads |-> rds]
    ELSE LET prevResult == prev[i]
             w          == Len(target)
         IN  IF i \in fails
             THEN NextScanLoop(i + 1, prev, results,
                               Append(rds, ReadCall(prevResult.address, w, FALSE)),
                               type, comparison, target, fails, tails)
             ELSE LET currentValue == BytesAt(prevResult.address, w)
                      found == NextScanFound(type, comparison, currentValue, target,
                                             prevResult.value, i \in tails)
                  IN  NextScanLoop(i + 1, prev,
                                   IF found THEN PushBack(results, prevResult) ELSE results,
                                   Append(rds, ReadCall(prevResult.address, w, TRUE)),
                                   type, comparison, target, fails, tails)

NextScanLoop(i, prev, results, rds, type, comparison, target, fails, tails) ==
    IF i > Len(prev) THEN [results |-> results, reads |-> rds]
    ELSE LET prevResult == prev[i]
             w          == Len(target)
         IN  IF i \in fails
             THEN NextScanLoop(i + 1, prev, results,
                               Append(rds, ReadCall(prevResult.address, w, FALSE)),
                               type, comparison, target, fails, tails)
             ELSE LET currentValue == BytesAt(prevResult.address, w)
                      found == NextScanFound(type, comparison, currentValue, target,
                                             prevResult.value, i \in tails)
                      result == [prevResult EXCEPT
                                    !.value = currentValue,
                                    !.description = Describe(type, currentValue)]
                  IN  NextScanLoop(i + 1, prev,
                                   IF found THEN PushBack(results, result) ELSE results,
                                   Append(rds, ReadCall(prevResult.address, w, TRUE)),
                                   type, comparison, target, fails, tails)

\* entries of prev whose read of w bytes cannot succeed
Unmapped(prev, w) == {i \in 1..Len(prev) : ~Mapped(prev[i].address, w)}

\* entries of prev for which memcmp against the stored value reads past it
ShortStored(prev, w, comparison) ==
    IF comparison \in {"changed", "unchanged"}
    THEN {i \in 1..Len(prev) : Len(prev[i].value) < w}
    ELSE {}

\* nextScan past its first test: the current set is moved to
\* previousScanResults and cleared, then the literal is parsed, then the
\* previous results are filtered
FilterPrevious(type, value, comparison) ==
    LET enc == EncodeTable[type, value]
    IN  /\ previousScanResults' = scanResults
        /\ IF enc.status # "ok"
           THEN /\ scanResults' = <<>>
                /\ reads' = <<>>
                /\ last' = Command("nextScan", type, value, comparison, enc.status)
           ELSE \E fails \in SUBSET (1..Len(scanResults)),
                   tails \in SUBSET ShortStored(scanResults, Len(enc.bytes), comparison) :
                  /\ Unmapped(scanResults, Len(enc.bytes)) \subseteq fails
                  /\ LET r == NextScanLoop(1, scanResults, <<>>, <<>>, type,
                                           comparison, enc.bytes, fails, tails)
                     IN  /\ scanResults' = r.results
                         /\ reads' = r.reads
                         /\ last' = Command("nextScan", type, value, comparison,
                                            "complete")
        /\ UNCHANGED <<isAttached, memoryRegions, targetMemory, writes,
                       targetRegions, outside>>

\* nextScan(type, value, comparison)
nextScan(type, value, comparison) ==
    IF scanResults = <<>>
    THEN /\ last' = Command("nextScan", type, value, comparison, "no_results")
         /\ reads' = <<>>
         /\ UNCHANGED <<isAttached, memoryRegions, scanResults, previousScanResults,
                        targetMemory, writes, targetRegions, outside>>
    ELSE FilterPrevious(type, value, comparison)

(***************************************************************************)
(* The shell: CLI::scanMemory and CLI::nextScan, run from CLI::run, which  *)
(* catches what a command throws.                                          *)
(***************************************************************************)
\* the type words typed at the prompt (long, float and double are left to
\* the codec)
TypeWords == {"byte", "short", "int", "string"}

\* the if / else if chain over typeStr
TypeOfWord(typeStr) ==
    CASE typeStr = "byte"   -> "BYTE"
      [] typeStr = "short"  -> "INT16"
      [] typeStr = "int"    -> "INT32"
      [] typeStr = "long"   -> "INT64"
      [] typeStr = "float"  -> "FLOAT"
      [] typeStr = "double" -> "DOUBLE"
      [] typeStr = "string" -> "STRING"
      [] OTHER              -> "UNKNOWN"

\* the arguments of scan and next.  Every type word with every literal and
\* every comparison; and one line each with no value, with no comparison,
\* with a word that is no type and with a word that is no comparison
CommandArgs ==
    { <<t, v, c>> : t \in TypeWords, v \in Literals, c \in Comparisons }
    \cup { <<"byte">>,
           <<"byte", <<"9", "7">> >>,
           <<"word", <<"9", "7">> >>,
           <<"byte", <<"9", "7">>, "equal">> }

ComparisonOf(args) == IF Len(args) >= 3 THEN args[3] ELSE "exact"

\* a command that ends in the shell with a message, the scanner untouched;
\* said is the word the message quotes, if it quotes one
Rejected(op, outcome, said) ==
    /\ last' = Command(op, "UNKNOWN", <<>>, said, outcome)
    /\ reads' = <<>>
    /\ UNCHANGED <<isAttached, memoryRegions, scanResults, previousScanResults,
                   targetMemory, writes, targetRegions, outside>>

\* a variant of CLI::scanMemory whose comparison test lets through the five
\* words that CLI::nextScan lets through
scanMemoryAnyComparison(args) ==
    /\ Prompt
    /\ ops' = ops + 1
    /\ IF Len(args) < 2
       THEN Rejected("firstScan", "usage", "")
       ELSE LET type == TypeOfWord(args[1])
                value == args[2]
                comparison == ComparisonOf(args)
            IN  IF ~isAttached
                THEN Rejected("firstScan", "not_attached", "")
                ELSE IF type = "UNKNOWN"
                THEN Rejected("firstScan", "unknown_type", "")
                ELSE IF comparison \notin {"exact", "greater", "less", "changed", "unchanged"}
                THEN Rejected("firstScan", "unknown_comparison", comparison)
                ELSE firstScan(type, value, comparison)

\* CLI::scanMemory(args)
scanMemory(args) ==
    /\ Prompt
    /\ ops' = ops + 1
    /\ IF Len(args) < 2
       THEN Rejected("firstScan", "usage", "")
       ELSE LET type == TypeOfWord(args[1])
                value == args[2]
                comparison == ComparisonOf(args)
            IN  IF ~isAttached
                THEN Rejected("firstScan", "not_attached", "")
                ELSE IF type = "UNKNOWN"
                THEN Rejected("firstScan", "unknown_type", "")
                ELSE IF comparison \notin {"exact", "greater", "less"}
                THEN Rejected("firstScan", "unknown_comparison", comparison)
                ELSE firstScan(type, value, comparison)

\* a variant of CLI::nextScan in which neither the shell nor the scanner
\* tests for an empty result set
CLI_nextScanUnchecked(args) ==
    /\ Prompt
    /\ ops' = ops + 1
    /\ IF Len(args) < 2
       THEN Rejected("nextScan", "usage", "")
       ELSE LET type == TypeOfWord(args[1])
                value == args[2]
                comparison == ComparisonOf(args)
            IN  IF ~isAttached
                THEN Rejected("nextScan", "not_attached", "")
                ELSE IF type = "UNKNOWN"
                THEN Rejected("nextScan", "unknown_type", "")
                ELSE IF comparison \notin {"exact", "greater", "less", "changed", "unchanged"}
                THEN Rejected("nextScan", "unknown_comparison", comparison)
                ELSE FilterPrevious(type, value, comparison)

\* CLI::nextScan(args)
CLI_nextScan(args) ==
    /\ Prompt
    /\ ops' = ops + 1
    /\ IF Len(args) < 2
       THEN Rejected("nextScan", "usage", "")
       ELSE LET type == TypeOfWord(args[1])
                value == args[2]
                comparison == ComparisonOf(args)
            IN  IF ~isAttached
                THEN Rejected("nextScan", "not_attached", "")
                ELSE IF Len(scanResults) = 0
                THEN Rejected("nextScan", "no_results", "")
                ELSE IF type = "UNKNOWN"
                THEN Rejected("nextScan", "unknown_type", "")
                ELSE IF comparison \notin {"exact", "greater", "less", "changed", "unchanged"}
                THEN Rejected("nextScan", "unknown_comparison", comparison)
                ELSE nextScan(type, value, comparison)

Next ==
    \/ attachProcess
    \/ detachProcess
    \/ \E args \in CommandArgs : scanMemory(args)
    \/ \E args \in CommandArgs : CLI_nextScan(args)
    \/ TargetWrite

Spec == Init /\ [][Next]_vars

(***************************************************************************)
(* The commands of the shell that show or store what the scanner holds,    *)
(* and the shell with every command that reaches the scanner.              *)
(***************************************************************************)
\* the arguments of results: none, a number, a word that is no number
LimitArgs == { <<>>, << <<"9", "7">> >>, << <<"a">> >> }

\* the arguments of save and load: none, a file name
FileArgs == { <<>>, << <<"a">> >> }

\* the commands whose handler has an empty body
StubCommands == {"regions", "read", "write", "watch"}

\* a command that ran in the scanner and changed none of its fields
Shown(op, outcome) ==
    /\ last' = Command(op, "UNKNOWN", <<>>, "", outcome)
    /\ reads' = <<>>
    /\ UNCHANGED <<isAttached, memoryRegions, scanResults, previousScanResults,
                   targetMemory, writes, targetRegions, outside>>

\* displayResults(limit): prints the first `limit` results
displayResults(limit) ==
    IF Len(scanResults) = 0
    THEN Shown("displayResults", "no_results")
    ELSE Shown("displayResults", "complete")

\* CLI::showResults(args): the limit is read with stoi
showResults(args) ==
    /\ Prompt
    /\ ops' = ops + 1
    /\ IF Len(args) >= 1 /\ ParseNumber(args[1]).conv /\ FitsSigned(ParseNumber(args[1]), 31)
       THEN displayResults(args[1])
       ELSE IF Len(args) >= 1
       THEN Shown("displayResults", "invalid_limit")
       ELSE displayResults(<<"2", "0">>)

\* static_cast<int>(result.type): the place of the type in enum ValueType
TypeNumber(type) ==
    CASE type = "BYTE" -> 0 [] type = "INT16" -> 1 [] type = "INT32" -> 2
      [] type = "INT64" -> 3 [] type = "FLOAT" -> 4 [] type = "DOUBLE" -> 5
      [] type = "STRING" -> 6 [] OTHER -> 7

\* a line of the file that starts with "# ": what it is about and the value
\* streamed into it (the name and pid of the target and the time are not
\* modelled)
MetaLine(field, value) == [mark |-> "#", field |-> field, value |-> value]

\* operator<< of a size_t: the digits of n in the base the stream is in
RECURSIVE NumeralOf(_, _)
NumeralOf(n, base) ==
    IF n < base THEN <<HexDigits[n + 1]>>
    ELSE NumeralOf(n \div base, base) \o <<HexDigits[(n % base) + 1]>>

\* the base the file stream is in when the line of results[k] begins.
\* std::hex and std::dec stay in force until the next one: the stream is
\* in base 10 when the first line begins, and the loop over the bytes of a
\* value leaves it in base 16
BaseAtRow(results, k) ==
    IF k > 1 /\ Len(results[k - 1].value) > 0 THEN 16 ELSE 10

\* the line of result i, begun with the stream in `base`: the fields
\* streamed into it, separated by commas.  The index is given by its value
\* and by the digits "file << i" writes; the other fields by their values
RowLine(i, result, base) ==
    [mark |-> "", field |-> "row",
     value |-> [id |-> i, idText |-> NumeralOf(i, base),
                address |-> result.address,
                type |-> TypeNumber(result.type), value |-> result.value,
                description |-> result.description]]

\* the lines saveResults streams into the file, each ended by std::endl
SaveLines(results) ==
    << MetaLine("title", "MacMemory Scan Results"),
       MetaLine("process", "targetName (PID: targetPid)"),
       MetaLine("timestamp", "time"),
       MetaLine("results", Len(results)),
       MetaLine("format", "ID,Address,Type,Value,Description") >>
    \o [k \in 1..Len(results) |->
           RowLine(k - 1, results[k], BaseAtRow(results, k))]

\* saveResults(filename): writes the results to the file, when there are
\* results and the file opens
saveResults(filename) ==
    IF Len(scanResults) = 0
    THEN Shown("saveResults", "no_results")
    ELSE \/ Shown("saveResults", "open_failed")
         \/ /\ savedFile' = SaveLines(scanResults)
            /\ last' = Command("saveResults", "UNKNOWN", <<>>, "", "complete")
            /\ reads' = <<>>
            /\ UNCHANGED <<isAttached, memoryRegions, scanResults, previousScanResults,
                           targetMemory, writes, targetRegions, lastValue, printed,
                           sleeps, cancelRequested>>

\* CLI::saveResults(args)
CLI_saveResults(args) ==
    /\ Prompt
    /\ ops' = ops + 1
    /\ IF Len(args) < 1
       THEN Shown("saveResults", "usage")
       ELSE saveResults(args[1])

\* loadResults(filename): its body is empty
loadResults(filename) == Shown("loadResults", "complete")

\* CLI::loadResults(args)
CLI_loadResults(args) ==
    /\ Prompt
    /\ ops' = ops + 1
    /\ IF Len(args) < 1
       THEN Shown("loadResults", "usage")
       ELSE loadResults(args[1])

\* getProcessInfo(), which CLI::processInfo calls
getProcessInfo ==
    /\ Prompt
    /\ ops' = ops + 1
    /\ IF ~isAttached
       THEN Shown("getProcessInfo", "not_attached")
       ELSE Shown("getProcessInfo", "complete")

\* CLI::listRegions, readMemory, writeMemory and watchMemory: nothing runs
stubCommand(op) ==
    /\ Prompt
    /\ ops' = ops + 1
    /\ Shown(op, "complete")

\* the scans the shell is given next to the commands above
ShellArgs ==
    { <<"byte", <<"9", "7">>, c>> : c \in {"exact", "changed"} }
    \cup { <<"short", <<"9", "7">>, "greater">>, <<"byte", <<"a">>, "exact">> }

ShellNext ==
    \/ attachProcess
    \/ detachProcess
    \/ \E args \in ShellArgs : scanMemory(args)
    \/ \E args \in ShellArgs : CLI_nextScan(args)
    \/ \E args \in LimitArgs : showResults(args)
    \/ \E args \in FileArgs : CLI_saveResults(args)
    \/ \E args \in FileArgs : CLI_loadResults(args)
    \/ getProcessInfo
    \/ \E op \in StubCommands : stubCommand(op)
    \/ TargetWrite

SpecShell == Init /\ [][ShellNext]_vars

(***************************************************************************)
(* The codec and the comparisons on their own: the switch that encodes a   *)
(* literal, the switch that describes a value, and the value of `found`    *)
(* in firstScan and in nextScan, applied to literals and windows drawn     *)
(* from CodecLiterals.                                                     *)
(***************************************************************************)
\* EncodeValue on these literals, worked out once
CodecTable == [type \in ValueType, lit \in CodecLiterals |-> EncodeValue(type, lit)]

\* a call of firstScan or nextScan is about to parse a literal
CodecInit ==
    /\ isAttached = TRUE
    /\ memoryRegions = <<>>
    /\ scanResults = <<>>
    /\ previousScanResults = <<>>
    /\ targetMemory = [a \in Addr |-> 0]
    /\ reads = <<>>
    /\ \E type \in ValueType, lit \in CodecLiterals,
          comparison \in {"exact", "greater", "less"} :
          last = Command("input", type, lit, comparison, "none")
    /\ ops = 0
    /\ writes = 0
    /\ targetRegions = <<>>
    /\ savedFile = <<>>
    /\ lastValue = <<>>
    /\ printed = <<>>
    /\ sleeps = 0
    /\ cancelRequested = FALSE

\* the switch (type) that encodes the literal; the value it yields is kept
\* as a ScanResult, with the description firstScan would give it
Encode ==
    /\ last.op = "input"
    /\ LET enc == CodecTable[last.type, last.value]
       IN  /\ last' = [last EXCEPT !.op = "encode", !.outcome = enc.status]
           /\ scanResults' = IF enc.status = "ok"
                             THEN <<MakeResult(0, last.type, enc.bytes)>>
                             ELSE <<>>
    /\ UNCHANGED <<isAttached, memoryRegions, previousScanResults, targetMemory,
                   reads, ops, writes, targetRegions, outside>>

\* the windows of the target's width that the codec yields for the type
Windows(type, w) ==
    {lit \in CodecLiterals :
        CodecTable[type, lit].status = "ok" /\ Len(CodecTable[type, lit].bytes) = w}

\* firstScan's `found` for one window, the encoding of the literal `from`
FirstCompare ==
    /\ last.op = "encode"
    /\ last.outcome = "ok"
    /\ \E from \in Windows(last.type, Len(scanResults[1].value)) :
          LET window == CodecTable[last.type, from].bytes
              found  == FirstScanFound(last.type, last.comparison, window,
                                       scanResults[1].value)
          IN  /\ reads' = <<[literal |-> from, bytes |-> window]>>
              /\ last' = [last EXCEPT !.op = "firstCompare",
                                      !.outcome = IF found THEN "found" ELSE "not_found"]
    /\ UNCHANGED <<isAttached, memoryRegions, scanResults, previousScanResults,
                   targetMemory, ops, writes, targetRegions, outside>>

\* nextScan's `found` for one fresh value, the encoding of the literal
\* `from`, at an address whose stored value is the encoding of `was`
NextCompare ==
    /\ last.op = "encode"
    /\ last.outcome = "ok"
    /\ \E from, was \in Windows(last.type, Len(scanResults[1].value)) :
          LET current == CodecTable[last.type, from].bytes
              stored  == CodecTable[last.type, was].bytes
              found   == NextScanFound(last.type, last.comparison, current,
                                       scanResults[1].value, stored, FALSE)
          IN  /\ reads' = <<[literal |-> from, bytes |-> current]>>
              /\ previousScanResults' = <<MakeResult(0, last.type, stored)>>
              /\ last' = [last EXCEPT !.op = "nextCompare",
                                      !.outcome = IF found THEN "found" ELSE "not_found"]
    /\ UNCHANGED <<isAttached, memoryRegions, scanResults, targetMemory, ops, writes,
                   targetRegions, outside>>

CodecNext == Encode \/ FirstCompare \/ NextCompare

SpecCodec == CodecInit /\ [][CodecNext]_vars

(***************************************************************************)
(* One first scan of a target with a single readable region [0..16): the   *)
(* command scan int 100 over memories that hold the bytes of 100 in either *)
(* byte order, or zeros, at offsets 0 and 4.                               *)
(***************************************************************************)
ScenarioRegion == [start |-> 0, size |-> 16, readable |-> TRUE]

\* four bytes: 100 with the low byte first, 100 with the low byte last,
\* and bytes that are neither
ScenarioWords ==
    { <<100, 0, 0, 0>>, <<0, 0, 0, 100>>, <<0, 0, 0, 0>>, <<100, 0, 0, 100>>,
      <<0, 100, 0, 0>>, <<97, 0, 0, 0>>, <<100, 97, 0, 0>>, <<100, 0, 0, 97>>,
      <<97, 97, 97, 97>>, <<0, 0, 100, 0>>, <<100, 100, 0, 0>> }

ScenarioInit ==
    /\ isAttached = TRUE
    /\ memoryRegions = <<ScenarioRegion>>
    /\ scanResults = <<>>
    /\ previousScanResults = <<>>
    /\ \E first, second \in ScenarioWords :
          targetMemory = [a \in 0..15 |->
                             IF a < 4 THEN first[a + 1]
                             ELSE IF a < 8 THEN second[a - 3]
                             ELSE 0]
    /\ reads = <<>>
    /\ last = NoCommand
    /\ ops = 0
    /\ writes = 0
    /\ targetRegions = memoryRegions
    /\ savedFile = <<>>
    /\ lastValue = <<>>
    /\ printed = <<>>
    /\ sleeps = 0
    /\ cancelRequested = FALSE

\* scan int 100 [exact], typed once
ScenarioNext ==
    /\ ops = 0
    /\ \E args \in { <<"int", <<"1", "0", "0">> >>,
                     <<"int", <<"1", "0", "0">>, "exact">> } :
          scanMemory(args)

SpecScenario == ScenarioInit /\ [][ScenarioNext]_vars

(***************************************************************************)
(* The shell next to a target that maps and unmaps regions while the       *)
(* scanner is attached to it.                                              *)
(***************************************************************************)
\* the target changes what it has mapped (mmap, munmap, mprotect)
TargetRemap ==
    /\ Alive
    /\ isAttached
    /\ \E catalog \in Catalogs :
          /\ catalog # targetRegions
          /\ targetRegions' = catalog
    /\ UNCHANGED <<isAttached, memoryRegions, scanResults, previousScanResults,
                   targetMemory, reads, last, ops, writes, outside>>

\* the scans typed while the target remaps
RemapArgs ==
    { <<"byte", <<"9", "7">>, "exact">>, <<"short", <<"9", "7">>, "greater">> }

RemapNext ==
    \/ attachProcess
    \/ detachProcess
    \/ TargetRemap
    \/ \E args \in RemapArgs : scanMemory(args)
    \/ \E args \in RemapArgs : CLI_nextScan(args)

SpecRemap == Init /\ [][RemapNext]_vars

(***************************************************************************)
(* The shell from a state in which a first scan has just found matches:    *)
(* refines, saves and loads, while the target stores bytes.                *)
(***************************************************************************)
\* the first scans that led to the state the shell starts from
StartScans ==
    { <<"BYTE", <<"9", "7">>, "exact">>, <<"INT16", <<"9", "7">>, "greater">>,
      <<"STRING", <<"a">>, "exact">> }

\* the state after attachProcess to a target whose regions are all
\* readable and a firstScan that read every region and did not fault
RefineInit ==
    /\ isAttached = TRUE
    /\ memoryRegions \in Catalogs
    /\ \A i \in 1..Len(memoryRegions) : memoryRegions[i].readable
    /\ targetRegions = memoryRegions
    /\ targetMemory = [a \in Addr |-> 97]
    /\ previousScanResults = <<>>
    /\ \E scan \in StartScans :
          LET enc == EncodeTable[scan[1], scan[2]]
              r   == FirstScanLoop(1, <<>>, <<>>, scan[1], scan[3], enc.bytes, {}, 0)
          IN  /\ r.outcome # "fault"
              /\ r.results # <<>>
              /\ scanResults = r.results
              /\ reads = r.reads
              /\ last = Command("firstScan", scan[1], scan[2], scan[3], r.outcome)
    /\ ops = 0
    /\ writes = 0
    /\ savedFile = <<>>
    /\ lastValue = <<>>
    /\ printed = <<>>
    /\ sleeps = 0
    /\ cancelRequested = FALSE

\* the target process stores a byte, up to MaxStores times
TargetStore ==
    /\ Alive
    /\ writes < MaxStores
    /\ \E a \in Addr, b \in ByteAlphabet :
          /\ targetMemory[a] # b
          /\ targetMemory' = [targetMemory EXCEPT ![a] = b]
    /\ writes' = writes + 1
    /\ UNCHANGED <<isAttached, memoryRegions, scanResults, previousScanResults,
                   reads, last, ops, targetRegions, outside>>

\* the refines typed
RefineArgs ==
    { <<"byte", <<"9", "7">>, c>> : c \in {"exact", "changed", "unchanged"} }
    \cup { <<"short", <<"9", "7">>, "changed">>, <<"string", <<"a">>, "unchanged">> }

RefineNext ==
    \/ \E args \in RefineArgs : CLI_nextScan(args)
    \/ \E args \in FileArgs : CLI_saveResults(args)
    \/ \E args \in FileArgs : CLI_loadResults(args)
    \/ detachProcess
    \/ TargetStore

SpecRefine == RefineInit /\ [][RefineNext]_vars

(***************************************************************************)
(* MemoryScanner::firstScan called as a method, with any ValueType, from a *)
(* state in which a first scan has found matches; refines in between.      *)
(***************************************************************************)
\* the literals handed to firstScan: a number and a word
DirectLiterals == { <<"9", "7">>, <<"a">> }

\* the comparison words handed to firstScan
DirectComparisons == {"exact", "changed"}

\* the types handed to firstScan: two integer types, STRING, and the one
\* the switch has no case for
DirectTypes == {"BYTE", "INT16", "STRING", "UNKNOWN"}

\* scanner.firstScan(type, value, comparison)
firstScanCall ==
    /\ Prompt
    /\ ops' = ops + 1
    /\ \E type \in DirectTypes, value \in DirectLiterals,
          comparison \in DirectComparisons : firstScan(type, value, comparison)

\* the refines between the calls
DirectRefines ==
    { <<"byte", <<"9", "7">>, "unchanged">>, <<"short", <<"9", "7">>, "exact">> }

DirectNext ==
    \/ firstScanCall
    \/ \E args \in DirectRefines : CLI_nextScan(args)
    \/ TargetStore

SpecDirect == RefineInit /\ [][DirectNext]_vars

(***************************************************************************)
(* The methods of MemoryScanner called one after the other, without the    *)
(* tests the shell makes before it calls them, from a state in which a     *)
(* first scan has found matches.                                           *)
(***************************************************************************)
\* the comparison words handed to nextScan
MethodComparisons == {"exact", "unchanged"}

\* scanner.nextScan(type, value, comparison)
nextScanCall ==
    /\ Prompt
    /\ ops' = ops + 1
    /\ \E type \in DirectTypes, value \in DirectLiterals,
          comparison \in MethodComparisons : nextScan(type, value, comparison)

MethodsNext ==
    \/ attachProcess
    \/ detachProcess
    \/ firstScanCall
    \/ nextScanCall

SpecMethods == RefineInit /\ [][MethodsNext]_vars

(***************************************************************************)
(* Scans and refines of a target that stores nothing: the shell just       *)
(* after attach, the target's memory any mix of the two bytes.             *)
(***************************************************************************)
\* the catalogs of a target whose regions are all readable, up to
\* MaxStaticRegions of them
StaticCatalogs ==
    UNION { { [i \in 1..n |-> RegionOf(sizes, [j \in 1..n |-> TRUE], i)] :
                sizes \in { z \in [1..n -> 1..MemSize] : SumTo(z, n) = MemSize } } :
            n \in 1..MaxStaticRegions }

\* the state after attachProcess
StaticInit ==
    /\ isAttached = TRUE
    /\ memoryRegions \in StaticCatalogs
    /\ targetRegions = memoryRegions
    /\ targetMemory \in [Addr -> ByteAlphabet]
    /\ scanResults = <<>>
    /\ previousScanResults = <<>>
    /\ reads = <<>>
    /\ last = Command("attach", "UNKNOWN", <<>>, "", "complete")
    /\ ops = 0
    /\ writes = 0
    /\ savedFile = <<>>
    /\ lastValue = <<>>
    /\ printed = <<>>
    /\ sleeps = 0
    /\ cancelRequested = FALSE

\* the first scans typed
StaticScans ==
    { <<"short", <<"9", "7">>, "exact">>, <<"string", <<"a">>, "exact">> }

\* the refines typed: the arguments of the first scans, and the same with
\* changed and unchanged
StaticRefines ==
    StaticScans
    \cup { <<"short", <<"9", "7">>, c>> : c \in {"changed", "unchanged"} }
    \cup { <<"string", <<"a">>, c>> : c \in {"changed", "unchanged"} }

StaticNext ==
    \/ \E args \in StaticScans : scanMemory(args)
    \/ \E args \in StaticRefines : CLI_nextScan(args)

SpecStatic == StaticInit /\ [][StaticNext]_vars

(***************************************************************************)
(* saveResults on result sets of up to MaxSaved matches.  (The ceiling of  *)
(* the code, 10000 matches, lies far above MaxSaved.)                      *)
(***************************************************************************)
\* the first scans that led to the state the shell starts from
SavedScans == { <<"BYTE", <<"9", "7">>, "exact">>, <<"STRING", <<"a">>, "exact">> }

\* the state after attachProcess to a target of one readable region of
\* MaxSaved bytes, the first n of them the letter a, and a first scan for
\* that letter
SaveInit ==
    /\ isAttached = TRUE
    /\ memoryRegions = <<[start |-> 0, size |-> MaxSaved, readable |-> TRUE]>>
    /\ targetRegions = memoryRegions
    /\ \E n \in 1..MaxSaved :
          /\ targetMemory = [a \in 0..(MaxSaved - 1) |-> IF a < n THEN 97 ELSE 0]
          /\ \E scan \in SavedScans :
                /\ scanResults = [k \in 1..n |-> MakeResult(k - 1, scan[1], <<97>>)]
                /\ last = Command("firstScan", scan[1], scan[2], scan[3], "complete")
    /\ previousScanResults = <<>>
    /\ reads = <<ReadCall(0, MaxSaved, TRUE)>>
    /\ ops = 0
    /\ writes = 0
    /\ savedFile = <<>>
    /\ lastValue = <<>>
    /\ printed = <<>>
    /\ sleeps = 0
    /\ cancelRequested = FALSE

SaveNext ==
    \/ \E args \in FileArgs : CLI_saveResults(args)
    \/ \E args \in FileArgs : CLI_loadResults(args)
    \/ \E args \in LimitArgs : showResults(args)
    \/ detachProcess

SpecSave == SaveInit /\ [][SaveNext]_vars

(***************************************************************************)
(* MemoryScanner::watchAddress and printValue: one call of watchAddress,   *)
(* followed poll by poll, while the target stores bytes.  (No command of   *)
(* the shell calls watchAddress: CLI::watchMemory has an empty body.)      *)
(***************************************************************************)
\* the switch (type) that sets valueSize in watchAddress
WatchSize(type) ==
    CASE type = "BYTE" -> 1 [] type = "INT16" -> 2 [] type = "INT32" -> 4
      [] type = "INT64" -> 8 [] type = "FLOAT" -> 4 [] type = "DOUBLE" -> 8
      [] type = "STRING" -> StringWatchSize [] OTHER -> 4

\* a readMemoryBlock call of the watch, with the bytes it copied out and
\* the number of usleep calls that returned before it
WatchRead(address, size, ok, bytes) ==
    [address |-> address, size |-> size, ok |-> ok, bytes |-> bytes,
     slept |-> sleeps]

\* what std::string(const char*) finds when the buffer holds no zero byte:
\* it reads on past the end of the buffer, where it finds a zero at once,
\* or a letter and then a zero, or memory that is not mapped
Overreads(type, data) ==
    IF type = "STRING" /\ \A i \in 1..Len(data) : data[i] # 0
    THEN { [fault |-> FALSE, tail |-> <<>>], [fault |-> FALSE, tail |-> <<97>>],
           [fault |-> TRUE, tail |-> <<>>] }
    ELSE { [fault |-> FALSE, tail |-> <<>>] }

\* printValue(data, type): what it streams to std::cout.  The STRING
\* branch builds std::string(data), which ends at the first zero byte.
printValue(type, data, over) ==
    IF type = "STRING"
    THEN LET zeros == {i \in 1..Len(data) : data[i] = 0}
         IN  IF zeros = {} THEN QuotedText(data \o over.tail)
             ELSE LET first == CHOOSE i \in zeros : \A j \in zeros : i <= j
                  IN  QuotedText(SubSeq(data, 1, first - 1))
    ELSE Describe(type, data)

\* "Initial value: " and the value
InitialLine(type, value, over) ==
    [kind |-> "initial", count |-> 0, old |-> value, new |-> value,
     oldText |-> printValue(type, value, over),
     newText |-> printValue(type, value, over)]

\* "Change detected (#count): Old: ... -> New: ..."
ChangeLine(type, count, old, new, overOld, overNew) ==
    [kind |-> "change", count |-> count, old |-> old, new |-> new,
     oldText |-> printValue(type, old, overOld),
     newText |-> printValue(type, new, overNew)]

\* the watch has ended, or has not begun, with nothing but its message
WatchEnded(type, outcome) ==
    /\ last' = Command("watchAddress", type, <<>>, "", outcome)
    /\ UNCHANGED <<lastValue, printed, sleeps>>

\* watchAddress(address, type) up to the loop: the test of isAttached, the
\* read of lastValue, the lines that show it
watchAddress(address, type) ==
    /\ LET size == WatchSize(type)
       IN  IF ~isAttached
           THEN /\ WatchEnded(type, "not_attached")
                /\ reads' = <<>>
           ELSE \E ok \in BOOLEAN :
                  /\ ok => Mapped(address, size)
                  /\ IF ~ok
                     THEN /\ WatchEnded(type, "baseline_failed")
                          /\ reads' = <<WatchRead(address, size, FALSE, <<>>)>>
                     ELSE LET value == BytesAt(address, size)
                          IN  /\ reads' = <<WatchRead(address, size, TRUE, value)>>
                              /\ \E over \in Overreads(type, value) :
                                    IF over.fault
                                    THEN WatchEnded(type, "fault")
                                    ELSE /\ lastValue' = value
                                         /\ printed' = <<InitialLine(type, value, over)>>
                                         /\ sleeps' = sleeps
                                         /\ last' = Command("watchAddress", type, <<>>,
                                                            "", "watching")
    /\ UNCHANGED <<isAttached, memoryRegions, scanResults, previousScanResults,
                   targetMemory, ops, writes, targetRegions, savedFile,
                   cancelRequested>>

\* a variant of PollFailed that sleeps and polls again
PollFailedRetry(address, size) ==
    /\ reads' = Append(reads, WatchRead(address, size, FALSE, <<>>))
    /\ sleeps' = sleeps + 1
    /\ UNCHANGED <<last, lastValue, printed>>

\* a poll whose readMemoryBlock returns false: "Failed to read value" and
\* break, which leaves the loop and the function
PollFailed(address, size) ==
    /\ reads' = Append(reads, WatchRead(address, size, FALSE, <<>>))
    /\ WatchEnded(last.type, "read_failed")

\* a variant of Remember that keeps the value read first
RememberFirst(known, currentValue) == known

\* lastValue = currentValue
Remember(known, currentValue) == currentValue

\* a poll whose read succeeds: the memcmp, the lines of a change, the
\* assignment to lastValue, the usleep
PollRead(address, size, type) ==
    LET currentValue == BytesAt(address, size)
        count == Len(printed)
    IN  /\ reads' = Append(reads, WatchRead(address, size, TRUE, currentValue))
        /\ IF SameBytes(lastValue, currentValue, size)
           THEN /\ sleeps' = sleeps + 1
                /\ UNCHANGED <<last, lastValue, printed>>
           ELSE \E overOld \in Overreads(type, lastValue),
                   overNew \in Overreads(type, currentValue) :
                  IF overOld.fault \/ overNew.fault
                  THEN WatchEnded(type, "fault")
                  ELSE /\ printed' = Append(printed,
                                            ChangeLine(type, count, lastValue,
                                                       currentValue, overOld, overNew))
                       /\ lastValue' = Remember(lastValue, currentValue)
                       /\ sleeps' = sleeps + 1
                       /\ UNCHANGED last

\* one turn of while (true)
Poll ==
    /\ last.op = "watchAddress"
    /\ last.outcome = "watching"
    /\ Len(reads) <= MaxPolls
    /\ \E ok \in BOOLEAN :
          /\ ok => Mapped(reads[1].address, reads[1].size)
          /\ IF ok THEN PollRead(reads[1].address, reads[1].size, last.type)
             ELSE PollFailed(reads[1].address, reads[1].size)
    /\ UNCHANGED <<isAttached, memoryRegions, scanResults, previousScanResults,
                   targetMemory, ops, writes, targetRegions, savedFile,
                   cancelRequested>>

\* the addresses watched: the base of the region, and an address from
\* which no 32 bytes can be read
WatchAddresses == {0, 1}

\* a scanner, attached to a target with one readable region of 32 bytes or
\* not attached, about to be asked to watch
WatchInit ==
    /\ isAttached \in BOOLEAN
    /\ memoryRegions = IF isAttached
                       THEN <<[start |-> 0, size |-> StringWatchSize, readable |-> TRUE]>>
                       ELSE <<>>
    /\ targetRegions = memoryRegions
    /\ scanResults = <<>>
    /\ previousScanResults = <<>>
    /\ targetMemory = [a \in 0..(StringWatchSize - 1) |-> 97]
    /\ reads = <<>>
    /\ last = NoCommand
    /\ ops = 0
    /\ writes = 0
    /\ savedFile = <<>>
    /\ lastValue = <<>>
    /\ printed = <<>>
    /\ sleeps = 0
    /\ cancelRequested = FALSE

WatchCall ==
    /\ last.op = "none"
    /\ \E address \in WatchAddresses, type \in ValueType : watchAddress(address, type)

WatchNext == WatchCall \/ Poll \/ TargetStore

SpecWatch == WatchInit /\ [][WatchNext]_vars

(***************************************************************************)
(* The watch and Ctrl+C, the one way to stop it that watchAddress names    *)
(* ("Press Ctrl+C to stop watching").  The program installs no handler     *)
(* for SIGINT, and the loop tests nothing but the result of its read.      *)
(***************************************************************************)
\* Ctrl+C is pressed while the watch runs, its sleep included
RequestCancel ==
    /\ last.op = "watchAddress"
    /\ last.outcome = "watching"
    /\ ~cancelRequested
    /\ cancelRequested' = TRUE
    /\ UNCHANGED <<isAttached, memoryRegions, scanResults, previousScanResults,
                   targetMemory, reads, last, ops, writes, targetRegions,
                   savedFile, lastValue, printed, sleeps>>

\* SIGINT reaches the process: its default action ends the process, in
\* the read or in the usleep, and watchAddress does not return
Interrupt ==
    /\ cancelRequested
    /\ last.op = "watchAddress"
    /\ last.outcome = "watching"
    /\ last' = [last EXCEPT !.outcome = "killed"]
    /\ UNCHANGED <<isAttached, memoryRegions, scanResults, previousScanResults,
                   targetMemory, reads, ops, writes, targetRegions, outside>>

CancelNext == WatchCall \/ Poll \/ TargetStore \/ RequestCancel \/ Interrupt

\* the loop goes on turning while it can, and a signal that was sent is
\* delivered
SpecCancel ==
    WatchInit /\ [][CancelNext]_vars /\ WF_vars(Poll) /\ WF_vars(Interrupt)

(***************************************************************************)
(* What the properties below read off a step or a state.                   *)
(***************************************************************************)
\* how a scan that got past its literal can end
ScanOutcomes == {"complete", "ceiling", "fault"}

\* how a scan ends when its literal is not encoded
ParseFailures == {"invalid_argument", "out_of_range", "unsupported"}

\* this step is the shell running the command op to its end
Ran(op) == ops' = ops + 1 /\ last'.op = op

\* the last command was a scan the shell passed on to the scanner
Scanned == last.op \in {"firstScan", "nextScan"} /\ last.type # "UNKNOWN"

Addresses(results) == [k \in 1..Len(results) |-> results[k].address]

\* the (address, value) pairs of a result set, in order
Matches(results) ==
    [k \in 1..Len(results) |->
        [address |-> results[k].address, value |-> results[k].value]]

\* s can be had from t by deleting elements of t
RECURSIVE IsSubsequence(_, _)
IsSubsequence(s, t) ==
    IF s = <<>> THEN TRUE
    ELSE IF t = <<>> THEN FALSE
    ELSE IF Head(s) = Head(t) THEN IsSubsequence(Tail(s), Tail(t))
    ELSE IsSubsequence(s, Tail(t))

Prefix(seq, n) == IF Len(seq) <= n THEN seq ELSE SubSeq(seq, 1, n)

\* the readable regions of the catalog, in catalog order: the k-th read of
\* a first scan is of the k-th of them
ReadableCatalog == SelectSeq(memoryRegions, LAMBDA region : region.readable)

\* the windows of w bytes that lie inside a region and satisfy the
\* predicate, in ascending offset order (none when the region is shorter
\* than w)
RegionMatches(region, type, comparison, target) ==
    LET w      == Len(target)
        inside == SelectSeq(Offsets(0, region.size - w),
                            LAMBDA off : FirstScanFound(type, comparison,
                                             BytesAt(region.start + off, w), target))
    IN  [k \in 1..Len(inside) |->
            [address |-> region.start + inside[k],
             value   |-> BytesAt(region.start + inside[k], w)]]

\* the matching windows of the readable regions from the k-th on, in
\* catalog-then-offset order, leaving out the regions whose read in rds
\* failed
RECURSIVE CatalogMatches(_, _, _, _, _)
CatalogMatches(k, rds, type, comparison, target) ==
    IF k > Len(ReadableCatalog) THEN <<>>
    ELSE (IF k <= Len(rds) /\ ~rds[k].ok THEN <<>>
          ELSE RegionMatches(ReadableCatalog[k], type, comparison, target))
         \o CatalogMatches(k + 1, rds, type, comparison, target)

\* the integer literals whose value fits neither the signed nor the
\* unsigned range of the type's width
WidthBits(type) ==
    CASE type = "BYTE" -> 8 [] type = "INT16" -> 16 [] type = "INT32" -> 32 [] OTHER -> 64

TooWide ==
    [type \in IntegerTypes, lit \in Literals |->
        LET p == ParseNumber(lit)
        IN  /\ p.conv
            /\ ~ (IF p.neg THEN FitsSigned(p, WidthBits(type) - 1)
                  ELSE ~p.over /\ TopBit(p.mag) < WidthBits(type))]

(***************************************************************************)
(* C1 .. C10.                                                              *)
(***************************************************************************)
\* C1: whatever the predicate and whichever reads fail, the addresses of
\* the result set a nextScan leaves are an order-preserving subsequence of
\* the addresses of the result set it started from
C1_RefineIsSubsequence ==
    [][Ran("nextScan") =>
          IsSubsequence(Addresses(scanResults'), Addresses(scanResults))]_vars

\* a refine that kept one address and dropped another whose read failed
C1_Witness ==
    /\ last.op = "nextScan"
    /\ last.outcome = "complete"
    /\ scanResults # <<>>
    /\ Len(scanResults) < Len(previousScanResults)
    /\ \E k \in 1..Len(reads) : ~reads[k].ok

\* C2: in every reachable state the current result set holds at most
\* ResultCeiling (10000 in the program) matches
C2_CeilingHolds == Len(scanResults) <= ResultCeiling

\* a refine that kept a result set as large as the ceiling
C2_Witness ==
    /\ last.op = "nextScan"
    /\ last.outcome = "complete"
    /\ Len(scanResults) = ResultCeiling

\* C3: when the catalog holds more than ResultCeiling matching offsets, a
\* first scan yields exactly the first ResultCeiling of them in
\* catalog-then-offset order and reads no region after the one that holds
\* the last of these
C3_CeilingStopsScan ==
    [][(Ran("firstScan") /\ last'.outcome \in ScanOutcomes) =>
          LET target == EncodeTable[last'.type, last'.value].bytes
              m == CatalogMatches(1, reads', last'.type, last'.comparison, target)
          IN  Len(m) > ResultCeiling =>
                 /\ Matches(scanResults') = SubSeq(m, 1, ResultCeiling)
                 /\ \A k \in 1..Len(reads') :
                        reads'[k].address <= m[ResultCeiling].address]_vars

\* C4: when fewer than ResultCeiling offsets match and every region is at
\* least w bytes long, the result of a first scan is exactly the matching
\* windows (address = region base + offset, value = the window's bytes) of
\* the readable, successfully read regions at offsets 0 .. length - w
C4_ExactMatches ==
    [][(Ran("firstScan") /\ last'.outcome \in ScanOutcomes) =>
          LET target == EncodeTable[last'.type, last'.value].bytes
              m == CatalogMatches(1, reads', last'.type, last'.comparison, target)
          IN  (/\ Len(m) < ResultCeiling
               /\ \A i \in 1..Len(memoryRegions) :
                      memoryRegions[i].size >= Len(target)) =>
                 /\ Matches(scanResults') = m
                 /\ last'.outcome = "complete"]_vars

\* a first scan over two regions, each at least w long, one of which
\* failed to read, that found one match
C4_Witness ==
    /\ last.op = "firstScan"
    /\ last.outcome = "complete"
    /\ Len(memoryRegions) = 2
    /\ \A i \in 1..Len(memoryRegions) :
           memoryRegions[i].size >= Len(EncodeTable[last.type, last.value].bytes)
    /\ \E k \in 1..Len(reads) : ~reads[k].ok
    /\ Len(scanResults) = 1

\* C5: a region shorter than the search width w that a first scan reads
\* contributes nothing: the scan does not fault on it, reports only the
\* matching windows that lie inside regions, and goes on to the regions
\* after it
C5_ShortRegionSkipped ==
    [][(Ran("firstScan") /\ last'.outcome \in ScanOutcomes) =>
          LET target == EncodeTable[last'.type, last'.value].bytes
              m == CatalogMatches(1, reads', last'.type, last'.comparison, target)
          IN  (\E k \in 1..Len(reads') :
                   reads'[k].ok /\ reads'[k].size < Len(target)) =>
                 /\ last'.outcome # "fault"
                 /\ Matches(scanResults') = Prefix(m, ResultCeiling)
                 /\ Len(m) < ResultCeiling => Len(reads') = Len(ReadableCatalog)]_vars

\* C6: a nextScan that aborts because its literal is not encoded leaves
\* the current result set as it was before the call
C6_FailedRefineKeepsResults ==
    [][(Ran("nextScan") /\ last'.outcome \in ParseFailures) =>
          scanResults' = scanResults]_vars

\* C7: a nextScan invoked while the current result set is empty fails at
\* once, changes neither result set and reads no memory
C7_EmptyRefineRefused ==
    [][(Ran("nextScan") /\ scanResults = <<>>) =>
          /\ last'.outcome \in {"usage", "not_attached", "no_results"}
          /\ scanResults' = scanResults
          /\ previousScanResults' = previousScanResults
          /\ reads' = <<>>]_vars

\* a nextScan refused, while attached, for want of results
C7_Witness ==
    /\ last.op = "nextScan"
    /\ last.outcome = "no_results"
    /\ isAttached
    /\ scanResults = <<>>

\* C8: a read failure is recovered locally.  A first scan reads the
\* readable regions only, in order, goes on to the next one after a read
\* that failed, and reports nothing inside a region whose read failed; a
\* refine re-reads every address of the previous set in order, drops those
\* whose read failed, and completes
C8_ReadFailureIsLocal ==
    /\ (last.op = "firstScan" /\ last.outcome \in ScanOutcomes) =>
          /\ \A k \in 1..Len(reads) :
                /\ reads[k].address = ReadableCatalog[k].start
                /\ ~reads[k].ok =>
                      /\ k < Len(ReadableCatalog) => Len(reads) > k
                      /\ \A j \in 1..Len(scanResults) :
                            \/ scanResults[j].address < reads[k].address
                            \/ scanResults[j].address >= reads[k].address + reads[k].size
          /\ (\A k \in 1..Len(reads) : ~reads[k].ok) =>
                /\ last.outcome = "complete"
                /\ Len(reads) = Len(ReadableCatalog)
    /\ (last.op = "nextScan" /\ last.outcome \in ScanOutcomes) =>
          /\ last.outcome = "complete"
          /\ Len(reads) = Len(previousScanResults)
          /\ \A k \in 1..Len(reads) :
                /\ reads[k].address = previousScanResults[k].address
                /\ ~reads[k].ok =>
                      \A j \in 1..Len(scanResults) :
                          scanResults[j].address # reads[k].address

\* a first scan whose first read failed and whose second read found a match
C8_Witness ==
    /\ last.op = "firstScan"
    /\ last.outcome = "complete"
    /\ Len(reads) = 2
    /\ ~reads[1].ok
    /\ reads[2].ok
    /\ scanResults # <<>>

\* C9: when the literal of a firstScan or nextScan is not encoded for the
\* requested type, the call ends on that failure without one call to
\* readMemoryBlock
C9_NoReadOnBadLiteral ==
    (Scanned /\ EncodeTable[last.type, last.value].status # "ok") =>
        /\ reads = <<>>
        /\ last.outcome \notin ScanOutcomes

\* a scan, in a target with a readable region, that ended on a literal
\* the parse threw on
C9_Witness ==
    /\ Scanned
    /\ last.outcome \in {"invalid_argument", "out_of_range"}
    /\ ReadableCatalog # <<>>

\* C10: a scan whose integer literal does not fit the width of its type
\* ends in an encoding error; the literal is never wrapped and searched for
C10_OverflowRejected ==
    (Scanned /\ last.type \in IntegerTypes /\ TooWide[last.type, last.value]) =>
        last.outcome \in ParseFailures

\* the entries of the set prev that a refine of width w keeps when it keeps
\* the entries whose read in rds succeeded and for which keep(stored bytes,
\* fresh bytes) holds: in the order of prev, each with its fresh bytes
Refined(prev, rds, w, keep(_, _)) ==
    LET idx == SelectSeq([k \in 1..Len(prev) |-> k],
                         LAMBDA k : /\ rds[k].ok
                                    /\ keep(prev[k].value, BytesAt(prev[k].address, w)))
    IN  [j \in 1..Len(idx) |->
            [address |-> prev[idx[j]].address,
             value   |-> BytesAt(prev[idx[j]].address, w)]]

\* the place in the catalog of the region that holds an address (one past
\* the last place for an address that no region holds)
CatalogIndex(address) ==
    LET holding == {i \in 1..Len(memoryRegions) :
                       /\ address >= memoryRegions[i].start
                       /\ address < memoryRegions[i].start + memoryRegions[i].size}
    IN  IF holding = {} THEN Len(memoryRegions) + 1 ELSE CHOOSE i \in holding : TRUE

\* the number a decimal literal writes, compared as numbers are: lit is a
\* numeral when it is digits with at most a minus sign in front (no
\* leading zero, no minus zero)
IsNumeral(lit) ==
    LET digits == IF lit # <<>> /\ lit[1] = "-" THEN Tail(lit) ELSE lit
    IN  /\ digits # <<>>
        /\ \A i \in 1..Len(digits) : IsDigit(digits[i])
        /\ Len(digits) > 1 => digits[1] # "0"
        /\ digits = <<"0">> => lit = digits

\* a < b for two strings of digits of numerals
MagnitudeLess(a, b) ==
    \/ Len(a) < Len(b)
    \/ /\ Len(a) = Len(b)
       /\ \E i \in 1..Len(a) :
             /\ DigitVal(a[i]) < DigitVal(b[i])
             /\ \A j \in 1..(i - 1) : a[j] = b[j]

\* a < b for two numerals
NumLess(a, b) ==
    LET nega == a[1] = "-"
        negb == b[1] = "-"
    IN  IF nega /\ negb THEN MagnitudeLess(Tail(b), Tail(a))
        ELSE IF nega THEN TRUE
        ELSE IF negb THEN FALSE
        ELSE MagnitudeLess(a, b)

\* the least and the greatest number of an integer type: 0..255 for BYTE,
\* the two's-complement range of the width for the others
KindMin(type) ==
    CASE type = "BYTE"  -> <<"0">>
      [] type = "INT16" -> <<"-", "3", "2", "7", "6", "8">>
      [] type = "INT32" -> <<"-", "2", "1", "4", "7", "4", "8", "3", "6", "4", "8">>
      [] OTHER -> <<"-", "9", "2", "2", "3", "3", "7", "2", "0", "3", "6", "8", "5", "4", "7", "7", "5", "8", "0", "8">>

KindMax(type) ==
    CASE type = "BYTE"  -> <<"2", "5", "5">>
      [] type = "INT16" -> <<"3", "2", "7", "6", "7">>
      [] type = "INT32" -> <<"2", "1", "4", "7", "4", "8", "3", "6", "4", "7">>
      [] OTHER -> <<"9", "2", "2", "3", "3", "7", "2", "0", "3", "6", "8", "5", "4", "7", "7", "5", "8", "0", "7">>

\* the literal writes a number the integer type can hold
InRange(type, lit) ==
    /\ IsNumeral(lit)
    /\ ~NumLess(lit, KindMin(type))
    /\ ~NumLess(KindMax(type), lit)

\* the last step worked out `found` for one window
Compared == last.op \in {"firstCompare", "nextCompare"}

(***************************************************************************)
(* C11 .. C20.                                                             *)
(***************************************************************************)
\* C11: a firstScan or nextScan of type STRING with the comparison greater
\* or less is rejected up front: it calls readMemoryBlock not once, ends on
\* a failure and not as a scan that ran, and leaves the current result set
\* as it was
C11_TextOrderingRejected ==
    [][((Ran("firstScan") \/ Ran("nextScan"))
           /\ last'.type = "STRING"
           /\ last'.comparison \in {"greater", "less"}) =>
          /\ reads' = <<>>
          /\ last'.outcome \notin ScanOutcomes
          /\ scanResults' = scanResults]_vars

\* C12: a first scan asked for with the comparison changed or unchanged is
\* refused at once: no region is read, and the current and the previous
\* result set are left as they were
C12_InitialChangedRefused ==
    [][(Ran("firstScan") /\ last'.comparison \in {"changed", "unchanged"}) =>
          /\ last'.outcome \in {"usage", "not_attached", "unknown_type",
                                "unknown_comparison"}
          /\ reads' = <<>>
          /\ scanResults' = scanResults
          /\ previousScanResults' = previousScanResults]_vars

\* a first scan refused for its comparison word changed or unchanged, while
\* attached to a target with a readable region and holding results
C12_Witness ==
    /\ last.op = "firstScan"
    /\ last.outcome = "unknown_comparison"
    /\ last.comparison \in {"changed", "unchanged"}
    /\ isAttached
    /\ ReadableCatalog # <<>>
    /\ scanResults # <<>>

\* C13: a nextScan whose literal encodes to a width other than the width
\* of a value stored in the result set it refines fails fast: it reads
\* nothing, compares nothing and does not end as a scan that ran
C13_WidthMismatchRefused ==
    [][(Ran("nextScan")
           /\ last'.type # "UNKNOWN"
           /\ EncodeTable[last'.type, last'.value].status = "ok"
           /\ \E k \in 1..Len(scanResults) :
                  Len(scanResults[k].value)
                      # Len(EncodeTable[last'.type, last'.value].bytes)) =>
          /\ reads' = <<>>
          /\ last'.outcome \notin ScanOutcomes]_vars

\* C14: in a nextScan over a set whose stored values have the search
\* width, an address whose re-read succeeds is kept by changed iff the
\* bytes just read differ from the bytes the preceding pass stored for it,
\* and by unchanged iff they are equal; so exactly one of the two keeps
\* it, and the search value decides nothing
C14_ChangedUnchangedComplementary ==
    [][(Ran("nextScan")
           /\ last'.outcome \in ScanOutcomes
           /\ last'.comparison \in {"changed", "unchanged"}) =>
          LET w == Len(EncodeTable[last'.type, last'.value].bytes)
          IN  (\A k \in 1..Len(scanResults) : Len(scanResults[k].value) = w) =>
                 /\ last'.comparison = "changed" =>
                       Matches(scanResults') =
                           Refined(scanResults, reads', w,
                                   LAMBDA stored, fresh : fresh # stored)
                 /\ last'.comparison = "unchanged" =>
                       Matches(scanResults') =
                           Refined(scanResults, reads', w,
                                   LAMBDA stored, fresh : fresh = stored)]_vars

\* a refine with changed, over two stored values of the search width whose
\* reads both succeeded, that kept one address and dropped the other
C14_Witness ==
    /\ last.op = "nextScan"
    /\ last.outcome = "complete"
    /\ last.comparison = "changed"
    /\ Len(previousScanResults) = 2
    /\ Len(scanResults) = 1
    /\ \A k \in 1..Len(reads) : reads[k].ok
    /\ \A k \in 1..Len(previousScanResults) :
           Len(previousScanResults[k].value) = Len(scanResults[1].value)

\* C17: the result of a firstScan lists its matches in catalog order of
\* their regions and, inside one region, by strictly ascending offset: of
\* two matches the earlier one lies in an earlier region of the catalog,
\* or in the same region at a smaller address
C17_CatalogThenOffsetOrder ==
    (last.op = "firstScan" /\ last.outcome \in ScanOutcomes) =>
        \A i, j \in 1..Len(scanResults) :
            i < j =>
               LET ri == CatalogIndex(scanResults[i].address)
                   rj == CatalogIndex(scanResults[j].address)
               IN  \/ ri < rj
                   \/ ri = rj /\ scanResults[i].address < scanResults[j].address

\* a first scan that found a match in each of two regions of the catalog
C17_Witness ==
    /\ last.op = "firstScan"
    /\ last.outcome \in ScanOutcomes
    /\ Len(scanResults) = 2
    /\ Len(memoryRegions) = 2
    /\ CatalogIndex(scanResults[1].address) = 1
    /\ CatalogIndex(scanResults[2].address) = 2

\* C19: every firstScan and every nextScan over a non-empty set that gets
\* to its loop runs to its end, or to the ceiling, and reports its count
\* of matches, whatever the catalog (regions shorter than the search
\* width and regions whose read fails included) and whatever the previous
\* set: no scan ends in a fault
C19_ScanReportsCount ==
    (Scanned /\ EncodeTable[last.type, last.value].status = "ok") =>
        last.outcome \in {"complete", "ceiling"}

\* C18: the current result set changes only when a firstScan or a
\* nextScan replaces it or a detach clears it: every other step,
\* displayResults, saveResults, getProcessInfo, the watch command and
\* attachProcess among them, leaves it as it was
C18_OnlyScansAndDetachChangeResults ==
    [][scanResults' # scanResults =>
          /\ ops' = ops + 1
          /\ last'.op \in {"firstScan", "nextScan", "detach"}]_vars

\* C15: with the comparison exact, for every type, in firstScan and in
\* nextScan, a window of the width of the encoded search value matches iff
\* its bytes are the bytes of the search value
C15_ExactIsByteEquality ==
    (Compared /\ last.comparison = "exact") =>
        (last.outcome = "found" <=> reads[1].bytes = scanResults[1].value)

\* nextScan's exact on a 2-byte window that agrees with the search value
\* in its first byte and not in its second
C15_Witness ==
    /\ last.op = "nextCompare"
    /\ last.comparison = "exact"
    /\ last.type = "INT16"
    /\ last.outcome = "not_found"
    /\ reads[1].bytes[1] = scanResults[1].value[1]
    /\ reads[1].bytes[2] # scanResults[1].value[2]

\* C16: with the comparison greater (less), in firstScan and in nextScan,
\* a window that holds a number of an integer type matches iff that number
\* (0..255 for BYTE, signed for INT16, INT32 and INT64) is strictly greater
\* (less) than the number the literal writes, for every literal within the
\* range of the type; a window equal to the literal matches neither
C16_OrderingIsNumeric ==
    (/\ Compared
     /\ last.comparison \in {"greater", "less"}
     /\ last.type \in IntegerTypes
     /\ InRange(last.type, last.value)
     /\ InRange(last.type, reads[1].literal)) =>
        (last.outcome = "found" <=>
            IF last.comparison = "greater"
            THEN NumLess(last.value, reads[1].literal)
            ELSE NumLess(reads[1].literal, last.value))

\* nextScan's greater 100 on INT32 windows: the one holding 150 was kept
C16_Witness ==
    /\ last.op = "nextCompare"
    /\ last.type = "INT32"
    /\ last.comparison = "greater"
    /\ last.value = <<"1", "0", "0">>
    /\ reads[1].literal = <<"1", "5", "0">>
    /\ last.outcome = "found"

\* C20: for every integer type and every literal within the range of the
\* type, the literal is encoded, and the description of the encoded bytes
\* writes the number the literal writes, a BYTE as a number of 0..255
C20_IntegerRoundTrip ==
    (last.op = "encode" /\ last.type \in IntegerTypes
        /\ InRange(last.type, last.value)) =>
        /\ last.outcome = "ok"
        /\ scanResults[1].description = last.value

\* the BYTE literal 200 encoded and described
C20_Witness ==
    /\ last.op = "encode"
    /\ last.type = "BYTE"
    /\ last.value = <<"2", "0", "0">>
    /\ last.outcome = "ok"
    /\ Len(scanResults) = 1

(***************************************************************************)
(* C21 .. C30.                                                             *)
(***************************************************************************)
\* the last command was scan int 100 exact and its read of the region
\* succeeded
ScenarioScanned ==
    /\ last.op = "firstScan"
    /\ last.type = "INT32"
    /\ last.value = <<"1", "0", "0">>
    /\ last.comparison = "exact"
    /\ Len(reads) = 1
    /\ reads[1].ok

\* the result set is one match, at the base of the region, described as 100
OneMatchAtBase ==
    /\ Len(scanResults) = 1
    /\ scanResults[1].address = ScenarioRegion.start
    /\ scanResults[1].description = <<"1", "0", "0">>

\* C21 as it stands: for a single readable region [0..16) whose first four
\* bytes are 00 00 00 64 (and whose other bytes are zero), scan int 100
\* exact yields exactly one match, at the base of the region, with the
\* description 100
C21_ScenarioA_AsStated ==
    (ScenarioScanned
        /\ BytesAt(0, 4) = <<0, 0, 0, 100>>
        /\ \A a \in 4..15 : targetMemory[a] = 0) => OneMatchAtBase

\* C21, with the bytes of 100 in the order the program stores an int: for
\* a single readable region [0..16) whose first four bytes are 64 00 00 00
\* and in which no other window holds these four bytes, scan int 100 exact
\* yields exactly one match, at the base of the region, with the
\* description 100
C21_ScenarioA ==
    (ScenarioScanned
        /\ BytesAt(0, 4) = <<100, 0, 0, 0>>
        /\ \A off \in 1..12 : BytesAt(off, 4) # <<100, 0, 0, 0>>) => OneMatchAtBase

\* the scan of the scenario over 64 00 00 00 followed by zeros
C21_Witness ==
    /\ ScenarioScanned
    /\ BytesAt(0, 4) = <<100, 0, 0, 0>>
    /\ \A a \in 4..15 : targetMemory[a] = 0
    /\ last.outcome = "complete"
    /\ OneMatchAtBase

\* the readable regions among `regions`, in their order
ReadableOf(regions) == SelectSeq(regions, LAMBDA region : region.readable)

\* C25: a firstScan iterates the regions the target has mapped when that
\* firstScan starts, so that a region mapped or unmapped since attach is
\* taken into account: its reads are of the readable regions of that
\* enumeration, in order, all of them when the scan completes; and
\* neither firstScan nor nextScan changes a region descriptor
C25_CatalogPerFirstScan ==
    [][/\ (Ran("firstScan") \/ Ran("nextScan")) => targetRegions' = targetRegions
       /\ (Ran("firstScan") /\ last'.outcome \in ScanOutcomes) =>
             LET now == ReadableOf(targetRegions)
             IN  /\ Len(reads') <= Len(now)
                 /\ \A k \in 1..Len(reads') :
                       /\ reads'[k].address = now[k].start
                       /\ reads'[k].size = now[k].size
                 /\ last'.outcome = "complete" => Len(reads') = Len(now)]_vars

\* the width a type tag implies for the numeric types
KindWidth(type) ==
    CASE type = "BYTE" -> 1 [] type = "INT16" -> 2 [] type \in {"INT32", "FLOAT"} -> 4
      [] OTHER -> 8

\* C28: in every reachable state every match of the current result set
\* has a value of the width its own type tag implies (1, 2, 4, 8, 4, 8
\* for the numeric types) and a description that is the rendering of that
\* value under that same type, also after a firstScan of one type and a
\* nextScan of another
C28_ValueFitsItsTag ==
    \A k \in 1..Len(scanResults) :
        LET result == scanResults[k]
        IN  /\ result.type \in NumericTypes => Len(result.value) = KindWidth(result.type)
            /\ result.description = Describe(result.type, result.value)

\* C30: the previous result set exists during a nextScan only: between
\* commands, and so after a nextScan has returned, it is empty
C30_PreviousOnlyDuringRefine == previousScanResults = <<>>

\* the lines of the file that start with # and the lines that do not
MetaLines(file) == SelectSeq(file, LAMBDA line : line.mark = "#")

RowLines(file) == SelectSeq(file, LAMBDA line : line.mark # "#")

\* address, type and bytes of the matches of a result set, in order
Stored(results) ==
    [k \in 1..Len(results) |->
        [address |-> results[k].address, type |-> TypeNumber(results[k].type),
         value |-> results[k].value]]

\* address, type and bytes of the rows of a file, in order
StoredInFile(file) ==
    [k \in 1..Len(RowLines(file)) |->
        [address |-> RowLines(file)[k].value.address,
         type |-> RowLines(file)[k].value.type,
         value |-> RowLines(file)[k].value.value]]

\* C26: saving and loading is a round trip: when loadResults(f) has run
\* on the file that a saveResults(f) wrote, the current result set holds
\* the matches that were saved (same address, type and bytes, in the same
\* order), whatever became of the result set in between
C26_SaveLoadRoundTrip ==
    [][(Ran("loadResults") /\ last'.outcome = "complete" /\ savedFile # <<>>) =>
          Stored(scanResults') = StoredInFile(savedFile)]_vars

\* C27: the file saveResults has written holds exactly four lines that
\* start with # (title, process, timestamp, number of results), then
\* exactly one line per match of the result set, in the order of the set,
\* and the number in the header is the number of these lines
C27_FileLayout ==
    (last.op = "saveResults" /\ last.outcome = "complete") =>
        LET meta == MetaLines(savedFile)
            rows == RowLines(savedFile)
        IN  /\ [k \in 1..Len(meta) |-> meta[k].field]
                  = <<"title", "process", "timestamp", "results">>
            /\ savedFile = meta \o rows
            /\ Stored(scanResults) = StoredInFile(savedFile)
            /\ meta[4].value = Len(rows)

\* C29: a match that a nextScan keeps carries the bytes read during that
\* nextScan; and so a nextScan with changed or unchanged that follows a
\* nextScan decides each address against the bytes the preceding nextScan
\* read there, not against the bytes the firstScan recorded
C29_KeptMatchIsFresh ==
    [][(Ran("nextScan") /\ last'.outcome \in ScanOutcomes) =>
          LET w == Len(EncodeTable[last'.type, last'.value].bytes)
          IN  /\ \A k \in 1..Len(scanResults') :
                    scanResults'[k].value = BytesAt(scanResults'[k].address, w)
              /\ (/\ last.op = "nextScan"
                  /\ last.outcome \in ScanOutcomes
                  /\ last'.comparison \in {"changed", "unchanged"}
                  /\ \A k \in 1..Len(scanResults) : Len(scanResults[k].value) = w) =>
                    Matches(scanResults') =
                        Refined(scanResults, reads', w,
                                LAMBDA stored, fresh :
                                    (fresh # stored) = (last'.comparison = "changed"))]_vars

\* the chain firstScan exact 97, a store of 0, nextScan changed, a store
\* of 97, nextScan changed: the address that holds what the firstScan
\* recorded, and not what the first nextScan read, is kept
C29_Witness ==
    /\ last.op = "nextScan"
    /\ last.comparison = "changed"
    /\ last.outcome = "complete"
    /\ writes = 2
    /\ Len(scanResults) = 1
    /\ scanResults[1].value = <<97>>
    /\ \E k \in 1..Len(previousScanResults) :
          /\ previousScanResults[k].address = scanResults[1].address
          /\ previousScanResults[k].value = <<0>>

\* the changes a watch has to report for the values it read one after the
\* other, `known` being the last-known value before them
RECURSIVE ChangesDue(_, _)
ChangesDue(known, values) ==
    IF values = <<>> THEN <<>>
    ELSE IF Head(values) = known THEN ChangesDue(known, Tail(values))
    ELSE <<[old |-> known, new |-> Head(values)]>>
             \o ChangesDue(Head(values), Tail(values))

\* the values the polls of the watch read, in order (the baseline left out)
Polled ==
    LET polls == SelectSeq(Tail(reads), LAMBDA read : read.ok)
    IN  [k \in 1..Len(polls) |-> polls[k].bytes]

\* the changes the watch has reported, in order
Reported ==
    LET lines == SelectSeq(printed, LAMBDA line : line.kind = "change")
    IN  [k \in 1..Len(lines) |-> [old |-> lines[k].old, new |-> lines[k].new]]

\* a watch that got past its baseline read and has not faulted
Watched ==
    last.op = "watchAddress" /\ last.outcome \in {"watching", "read_failed"}

\* C22: the watch reports a change exactly when a poll reads bytes that
\* differ from the last-known value, which the bytes read then become:
\* old and new of a change differ, the old bytes of the first change are
\* the baseline, the old bytes of a later change are the new bytes of the
\* change before it, and a poll that reads the last-known bytes reports
\* nothing and leaves the last-known value as it was
C22_WatchReportsChanges ==
    Watched =>
        /\ Reported = ChangesDue(reads[1].bytes, Polled)
        /\ \A k \in 1..Len(Reported) : Reported[k].old # Reported[k].new
        /\ lastValue = IF Reported = <<>> THEN reads[1].bytes
                       ELSE Reported[Len(Reported)].new

\* a watch of three polls: a change, a poll that read the same bytes, a
\* second change
C22_Witness ==
    /\ Watched
    /\ Len(reads) = 4
    /\ \A k \in 1..4 : reads[k].ok
    /\ reads[2].bytes # reads[1].bytes
    /\ reads[3].bytes = reads[2].bytes
    /\ reads[4].bytes # reads[3].bytes
    /\ Len(Reported) = 2

\* the reads and sleeps of a watch are in order: none when not attached;
\* one read and no line when the baseline read failed; a read that failed
\* is the last one and the watch has returned; one sleep per poll read
\* that succeeded
WatchOrderly ==
    last.op = "watchAddress" =>
        /\ last.outcome = "not_attached" => reads = <<>> /\ sleeps = 0
        /\ last.outcome = "baseline_failed" =>
              Len(reads) = 1 /\ printed = <<>> /\ sleeps = 0
        /\ \A k \in 1..Len(reads) :
              ~reads[k].ok =>
                 /\ k = Len(reads)
                 /\ last.outcome = IF k = 1 THEN "baseline_failed" ELSE "read_failed"
        /\ last.outcome # "fault" =>
              sleeps = Cardinality({k \in 2..Len(reads) : reads[k].ok})

\* C23: a read failure ends the watch.  After the first poll read that
\* failed there is no further read and no further sleep, and the function
\* returns; a baseline read that failed returns before the loop; and
\* watchAddress while not attached reads nothing at all
C23_ReadFailureEndsWatch ==
    [][/\ WatchOrderly'
       /\ (last.op = "watchAddress" /\ last.outcome # "watching") =>
             /\ reads' = reads
             /\ sleeps' = sleeps
             /\ last' = last]_vars

\* a watch that polled once with success and returned on its second poll,
\* whose read failed
C23_Witness ==
    /\ last.op = "watchAddress"
    /\ last.outcome = "read_failed"
    /\ Len(reads) = 3
    /\ reads[2].ok
    /\ ~reads[3].ok
    /\ sleeps = 1

\* a zero byte lies in the buffer
HasZero(data) == \E i \in 1..Len(data) : data[i] = 0

\* C24: a STRING value is rendered with the length of its buffer, not up
\* to a zero byte: the descriptions of the matches of a firstScan or
\* nextScan of type STRING, and the initial, old and new values the watch
\* prints for its buffer of 32 bytes, show every byte of the buffer, also
\* when a zero byte lies in it
C24_TextRenderedInFull ==
    /\ (Scanned /\ last.type = "STRING") =>
          \A k \in 1..Len(scanResults) :
              scanResults[k].description = QuotedText(scanResults[k].value)
    /\ (last.op = "watchAddress" /\ last.type = "STRING") =>
          \A k \in 1..Len(printed) :
              /\ Len(printed[k].old) = StringWatchSize
              /\ Len(printed[k].new) = StringWatchSize
              /\ HasZero(printed[k].old) =>
                     printed[k].oldText = QuotedText(printed[k].old)
              /\ HasZero(printed[k].new) =>
                     printed[k].newText = QuotedText(printed[k].new)

(***************************************************************************)
(* C31 .. C36                                                              *)
(***************************************************************************)
\* C31: in the watch every re-read comes after a sleep of the interval:
\* the loop sleeps between the baseline read and the first poll read, and
\* exactly one sleep lies between any two reads that follow one another
C31_SleepBeforeEveryPoll ==
    last.op = "watchAddress" =>
        /\ Len(reads) >= 2 => reads[2].slept = reads[1].slept + 1
        /\ \A k \in 1..(Len(reads) - 1) : reads[k + 1].slept = reads[k].slept + 1

\* a readMemoryBlock call of rds copied out the w bytes at address
ReadsCover(rds, address, w) ==
    \E k \in 1..Len(rds) :
        /\ rds[k].ok
        /\ rds[k].address <= address
        /\ address + w <= rds[k].address + rds[k].size

\* C33: after any call of firstScan, to its end or not, the previous
\* result set is empty and the current one holds only matches this call
\* found: each has the call's type and the width of the call's search
\* value, and a match whose window lies inside a region this call read has
\* the bytes found there, which satisfy the comparison.  A call that ends
\* on a literal that does not parse, or on a type the switch has no case
\* for, has read nothing and leaves the current set empty, whatever the
\* scan before had found
C33_FirstScanStartsAfresh ==
    [][(Ran("firstScan") /\ last'.outcome \in ScanOutcomes \cup ParseFailures) =>
          /\ previousScanResults' = <<>>
          /\ last'.outcome \in ParseFailures => scanResults' = <<>> /\ reads' = <<>>
          /\ \A k \in 1..Len(scanResults') :
                LET result == scanResults'[k]
                    target == EncodeTable[last'.type, last'.value].bytes
                IN  /\ result.type = last'.type
                    /\ Len(result.value) = Len(target)
                    /\ ReadsCover(reads', result.address, Len(target)) =>
                          /\ result.value = BytesAt(result.address, Len(target))
                          /\ FirstScanFound(last'.type, last'.comparison,
                                            result.value, target)]_vars

\* the first call made in a state with matches in the current set is a
\* firstScan of type INT16 with a literal stoi throws on
C33_Witness ==
    /\ ops = 1
    /\ last.op = "firstScan"
    /\ last.type = "INT16"
    /\ last.outcome = "invalid_argument"
    /\ scanResults = <<>>
    /\ previousScanResults = <<>>

\* no process is attached, and the catalog and both result sets are empty
Detached ==
    /\ ~isAttached
    /\ memoryRegions = <<>>
    /\ scanResults = <<>>
    /\ previousScanResults = <<>>

\* C34: in every state in which no process is attached the catalog, the
\* current result set and the previous result set are empty.
\* detachProcess leads there from any state in which a process is
\* attached, and changes nothing when none is; so a nextScan after a
\* detach ends at once for lack of results, having read nothing
C34_DetachedMeansEmpty ==
    /\ [](~isAttached => Detached)
    /\ [][/\ Ran("detach") =>
               /\ Detached'
               /\ ~isAttached => UNCHANGED <<isAttached, memoryRegions, scanResults,
                                             previousScanResults, targetMemory>>
          /\ (Ran("nextScan") /\ ~isAttached) =>
               /\ last'.outcome = "no_results"
               /\ reads' = <<>>
               /\ Detached']_vars

\* a nextScan that ended for lack of results as the second call, after a
\* detachProcess from a state with matches in the current set
C34_Witness ==
    /\ ops = 2
    /\ last.op = "nextScan"
    /\ last.outcome = "no_results"
    /\ Detached

\* every readMemoryBlock call of rds returned true
AllRead(rds) == \A k \in 1..Len(rds) : rds[k].ok

\* C35: on a target that stores nothing, with every read a success, a
\* refine with the arguments of the first scan before it changes nothing:
\* after firstScan(type, v, exact) the call nextScan(type, v, exact) leaves
\* the same addresses, values and descriptions in the same order, and so
\* does nextScan(type, v, unchanged); nextScan(type, v, changed) leaves the
\* empty set
C35_RefineIsIdempotent ==
    [][(/\ Ran("nextScan")
        /\ last.op = "firstScan"
        /\ last.comparison = "exact"
        /\ last.outcome \in {"complete", "ceiling"}
        /\ last'.type = last.type
        /\ last'.value = last.value
        /\ AllRead(reads)
        /\ AllRead(reads')) =>
           /\ last'.outcome = "complete"
           /\ last'.comparison \in {"exact", "unchanged"} => scanResults' = scanResults
           /\ last'.comparison = "changed" => scanResults' = <<>>]_vars

\* C36: in the file saveResults has written, the index at the head of the
\* line of the i-th match is i, counted from zero, in decimal digits, on
\* every line and for result sets of any size: the base in which the
\* address and the bytes of one line are written is not the base of the
\* index of the next line
C36_IndexInDecimal ==
    (last.op = "saveResults" /\ last.outcome = "complete") =>
        LET rows == RowLines(savedFile)
        IN  \A k \in 1..Len(rows) :
                /\ rows[k].value.id = k - 1
                /\ rows[k].value.idText = NumeralOf(k - 1, 10)

\* watchAddress has returned to its caller
WatchReturned ==
    /\ last.op = "watchAddress"
    /\ last.outcome \in {"not_attached", "baseline_failed", "read_failed", "cancelled"}

\* C32: the watch can be shut down from outside: a cancellation asked for
\* while the loop runs, its sleep included, leads to the end of the loop
\* and to the return of watchAddress to its caller, whether or not a read
\* fails
C32_CancelEndsWatch == cancelRequested ~> WatchReturned

=============================================================================
